---- MODULE Spec2Model ----
(***************************************************************************)
(* The cart / order transaction functions of foodie-hub                    *)
(* (supabase/migrations/20250713120623_winter_spire.sql, the revision that *)
(* is installed last: lines 367-676), run by concurrent database sessions. *)
(*                                                                         *)
(* Every call of a function is one transaction.  The functions set no      *)
(* isolation level, so each SQL statement is one step that reads the rows  *)
(* committed at that moment (READ COMMITTED), a row lock taken by SELECT   *)
(* ... FOR UPDATE, UPDATE or DELETE is held until the transaction ends,    *)
(* and a statement that needs a row locked by another transaction waits.   *)
(* Writes become visible to the other transactions when the function       *)
(* returns.                                                                *)
(***************************************************************************)
EXTENDS Integers, Sequences, FiniteSets, TLC

\* ---------------------------------------------------------------- bounds
MaxTx == 3          \* number of calls (transactions) in one behaviour
MaxStock == 2       \* largest initial quantity_available
MaxQty == 2         \* largest quantity argument
NegQty == 1         \* smallest quantity argument is -NegQty
MaxRenders == 3     \* number of effect runs of the hook in one behaviour
MaxClientCalls == 2 \* number of calls in one behaviour of the dashboard

Users == {"u1", "u2"}
Items == {"X"}
NULL == "null"
Tx == 1..MaxTx
Quantities == (0 - NegQty)..MaxQty
Callers == Users \cup {NULL}
CartIds == [user_id : Users, menu_item_id : Items]
\* The ids a caller can pass as p_menu_item_id: those of the rows of menu_items
\* and one that names no row.
ItemIds == Items \cup {"Y"}
\* The prices the menu management sets.
Prices == {2, 3}

VARIABLES
    menu_items,     \* table menu_items: item id -> [quantity_available, price]
    cart_items,     \* table cart_items: set of rows [user_id, menu_item_id, quantity]
    orders,         \* table orders: set of rows
    order_items,    \* table order_items: set of rows
    item_lock,      \* row locks on menu_items: item id -> holder (0: free)
    cart_lock,      \* row locks on cart_items: row id -> holder (0: free)
    tx,             \* per call: position, arguments, plpgsql variables, result
    stocked,        \* the quantity each item was stocked with (never changes)
    \* StudentDashboard (src/unnamed/part_000), signed in as one user
    mounted,        \* the component has mounted (its first effect has run)
    menuItems,      \* React state menuItems: item id -> row as last set
    cartItems,      \* React state cartItems: the cart rows as last set
    requests,       \* fetchMenuItems / fetchCartItems requests under way
    events,         \* realtime change events emitted and not yet delivered
    published,      \* the rows up to which the realtime server has emitted events
    handlers,       \* per call issued by the dashboard: position of its handler
    \* useRealtimeSubscription (src/src/hooks/useRealtimeSubscription.ts), one use
    channels,       \* the channels the hook has created, in order of creation
    subscription,   \* the effect's variable subscription (0: undefined)
    effect,         \* "active" from an effect run to its cleanup, else "none"
    isConnected,    \* React state isConnected
    called          \* the handler calls made for delivered change events

backend == <<menu_items, cart_items, orders, order_items, item_lock, cart_lock, tx, stocked>>
db == <<menu_items, cart_items, orders, order_items>>
dashboard == <<mounted, menuItems, cartItems, requests, events, published, handlers>>
hook == <<channels, subscription, effect, isConnected, called>>
vars == <<menu_items, cart_items, orders, order_items, item_lock, cart_lock, tx, stocked,
          dashboard, hook>>

\* ------------------------------------------------------------ SQL helpers

\* auth.uid() != p_user_id in SQL's three-valued logic: NULL when either is NULL.
SqlNotEqual(a, b) == IF a = NULL \/ b = NULL THEN "null" ELSE IF a # b THEN "true" ELSE "false"

\* IF <condition> THEN: the branch is taken only when the condition is true.
IfTaken(c) == c = "true"

\* The id of a cart row. cart_items has the unique key (user_id, menu_item_id)
\* named by ON CONFLICT, so the pair stands for the row's uuid.
CartId(r) == [user_id |-> r.user_id, menu_item_id |-> r.menu_item_id]

\* SELECT ... FROM cart_items WHERE user_id = u AND menu_item_id = i
CartRowsOf(cart, u, i) == {r \in cart : r.user_id = u /\ r.menu_item_id = i}

\* The same SELECT without "AND user_id = u": the row is found whoever owns it.
CartRowsByIdAnyOwner(cart, id, u) == {r \in cart : CartId(r) = id}

\* SELECT ... FROM cart_items WHERE id = id AND user_id = u
CartRowsById(cart, id, u) == {r \in cart : CartId(r) = id /\ r.user_id = u}

\* SELECT ... FROM cart_items WHERE user_id = u
CartOfUser(cart, u) == {r \in cart : r.user_id = u}

RECURSIVE SumQty(_)
SumQty(S) == IF S = {} THEN 0
             ELSE LET r == CHOOSE x \in S : TRUE IN r.quantity + SumQty(S \ {r})

\* SUM(ci.quantity * mi.price) over cart rows joined with menu_items
RECURSIVE SumAmount(_, _)
SumAmount(S, menu) == IF S = {} THEN 0
                      ELSE LET r == CHOOSE x \in S : TRUE
                           IN r.quantity * menu[r.menu_item_id].price + SumAmount(S \ {r}, menu)

\* SUM(quantity * price) over order lines
RECURSIVE SumLines(_)
SumLines(S) == IF S = {} THEN 0
               ELSE LET r == CHOOSE x \in S : TRUE IN r.quantity * r.price + SumLines(S \ {r})

\* ------------------------------------------------------------ results
Unauthorized == [success |-> FALSE, error |-> "Unauthorized access"]
ItemNotFound == [success |-> FALSE, error |-> "Menu item not found"]
CartItemNotFound == [success |-> FALSE, error |-> "Cart item not found"]
EmptyCart == [success |-> FALSE, error |-> "Cart is empty"]
DatabaseError == [success |-> FALSE, error |-> "Database error"]
OnlyAvailable(n) == [success |-> FALSE, error |-> "Only items available", available |-> n]
OnlyAdditional(n) == [success |-> FALSE, error |-> "Only additional items available", available |-> n]
NoResult == [success |-> FALSE, error |-> "pending"]

\* The object of lines 437-443 with the two numbers in each other's place.
AddedSwapped(id, new_quantity, remaining_stock) ==
    [success |-> TRUE, message |-> "Item added to cart successfully", cart_item_id |-> id,
     new_quantity |-> remaining_stock, remaining_stock |-> new_quantity]

\* The success objects the functions build (lines 437-443, 500-504, 589-595, 661-666).
Added(id, new_quantity, remaining_stock) ==
    [success |-> TRUE, message |-> "Item added to cart successfully", cart_item_id |-> id,
     new_quantity |-> new_quantity, remaining_stock |-> remaining_stock]
Removed(restored_quantity) ==
    [success |-> TRUE, message |-> "Item removed from cart successfully",
     restored_quantity |-> restored_quantity]
Updated(old_quantity, new_quantity, remaining_stock) ==
    [success |-> TRUE, message |-> "Cart quantity updated successfully",
     old_quantity |-> old_quantity, new_quantity |-> new_quantity,
     remaining_stock |-> remaining_stock]
Ordered(order_id, total_amount) ==
    [success |-> TRUE, message |-> "Order placed successfully", order_id |-> order_id,
     total_amount |-> total_amount]

\* ------------------------------------------------------------ calls
NoCartId == [user_id |-> NULL, menu_item_id |-> "none"]

IdleTx == [pc |-> "idle", op |-> "none", auth_uid |-> NULL, p_user_id |-> NULL,
           p_menu_item_id |-> "none", p_cart_item_id |-> NoCartId, p_quantity |-> 0,
           v_available_quantity |-> 0, v_current_cart_quantity |-> 0,
           v_total_amount |-> 0, v_lines |-> {}, res |-> NoResult]

\* Calls start in the order of their numbers (the numbers are only names).
CanStart(t) == tx[t].pc = "idle" /\ (IF t = 1 THEN TRUE ELSE tx[t - 1].pc # "idle")

\* RETURN: the transaction ends; its plpgsql variables are gone.
Return(c, r) == [c EXCEPT !.pc = "done", !.res = r, !.v_available_quantity = 0,
                          !.v_current_cart_quantity = 0, !.v_total_amount = 0, !.v_lines = {}]

Release(lock, t) == [k \in DOMAIN lock |-> IF lock[k] = t THEN 0 ELSE lock[k]]

\* The dashboard before it mounts: useState([]) for menuItems and cartItems
\* (part_000 lines 66-67), nothing requested, nothing emitted.
DashboardInit ==
    /\ mounted = FALSE
    /\ menuItems = [i \in {} |-> 0]
    /\ cartItems = {}
    /\ requests = {}
    /\ events = {}
    /\ published = [menu |-> menu_items, cart |-> cart_items, lsn |-> 0]
    /\ handlers = [t \in Tx |-> "none"]

\* The hook before its first effect run: useState(false) (line 19), no channel.
HookInit ==
    /\ channels = <<>>
    /\ subscription = 0
    /\ effect = "none"
    /\ isConnected = FALSE
    /\ called = {}

Init ==
    /\ menu_items \in [Items -> [quantity_available : 0..MaxStock, price : {2}]]
    /\ cart_items = {}
    /\ orders = {}
    /\ order_items = {}
    /\ item_lock = [i \in Items |-> 0]
    /\ cart_lock = [k \in CartIds |-> 0]
    /\ tx = [t \in Tx |-> IdleTx]
    /\ stocked = [i \in Items |-> menu_items[i].quantity_available]
    /\ DashboardInit
    /\ HookInit

\* ------------------------------------------- add_to_cart_with_quantity_check

\* A call by a session whose auth.uid() is uid, and its check of the caller
\* (lines 382-388).
AddCall(t, uid, u, i, q) ==
    /\ CanStart(t)
    /\ LET c == [IdleTx EXCEPT !.op = "add", !.auth_uid = uid, !.p_user_id = u,
                               !.p_menu_item_id = i, !.p_quantity = q]
       IN tx' = [tx EXCEPT ![t] = IF IfTaken(SqlNotEqual(uid, u))
                                  THEN Return(c, Unauthorized)
                                  ELSE [c EXCEPT !.pc = "a_lock"]]
    /\ UNCHANGED <<menu_items, cart_items, orders, order_items, item_lock, cart_lock, stocked, dashboard, hook>>

\* The call as the dashboard issues it: p_user_id is the signed-in user's id.
AddBegin(t) == \E u \in Users, i \in Items, q \in Quantities : AddCall(t, u, u, i, q)

\* The call with a quantity as the interface documents it (quantity > 0).
AddBeginPositive(t) == \E u \in Users, i \in Items, q \in 1..MaxQty : AddCall(t, u, u, i, q)

\* The call for any id, of a menu item or not.
AddBeginAnyItem(t) == \E u \in Users, i \in ItemIds : AddCall(t, u, u, i, 1)

\* The call as any session of the API can issue it.
AddBeginAs(t) == \E uid \in Callers, u \in Users, i \in Items : AddCall(t, uid, u, i, 1)

\* The same statements with an item that is out of stock taken for a missing one.
AddLockItemNoneLeft(t) ==
    /\ tx[t].pc = "a_lock"
    /\ LET i == tx[t].p_menu_item_id IN
       IF i \notin DOMAIN menu_items \/ menu_items[i].quantity_available = 0
       THEN /\ tx' = [tx EXCEPT ![t] = Return(@, ItemNotFound)]
            /\ UNCHANGED item_lock
       ELSE /\ item_lock[i] = 0
            /\ item_lock' = [item_lock EXCEPT ![i] = t]
            /\ tx' = [tx EXCEPT ![t].pc = "a_cart",
                                ![t].v_available_quantity = menu_items[i].quantity_available]
    /\ UNCHANGED <<menu_items, cart_items, orders, order_items, cart_lock, stocked, dashboard, hook>>

\* The same SELECT without FOR UPDATE: the stock is read without waiting for,
\* or taking, the item's row lock.
AddLockItemUnlocked(t) ==
    /\ tx[t].pc = "a_lock"
    /\ LET i == tx[t].p_menu_item_id IN
       IF i \notin DOMAIN menu_items
       THEN tx' = [tx EXCEPT ![t] = Return(@, ItemNotFound)]
       ELSE tx' = [tx EXCEPT ![t].pc = "a_cart",
                             ![t].v_available_quantity = menu_items[i].quantity_available]
    /\ UNCHANGED <<menu_items, cart_items, orders, order_items, item_lock, cart_lock, stocked, dashboard, hook>>

\* SELECT quantity_available ... FOR UPDATE, and the check that the item exists
\* (lines 390-402).
\* The same statements with a lock on the whole menu_items table for the row lock.
AddLockItemWholeTable(t) ==
    /\ tx[t].pc = "a_lock"
    /\ LET i == tx[t].p_menu_item_id IN
       IF i \notin DOMAIN menu_items
       THEN /\ tx' = [tx EXCEPT ![t] = Return(@, ItemNotFound)]
            /\ UNCHANGED item_lock
       ELSE /\ \A j \in DOMAIN item_lock : item_lock[j] = 0
            /\ item_lock' = [item_lock EXCEPT ![i] = t]
            /\ tx' = [tx EXCEPT ![t].pc = "a_cart",
                                ![t].v_available_quantity = menu_items[i].quantity_available]
    /\ UNCHANGED <<menu_items, cart_items, orders, order_items, cart_lock, stocked, dashboard, hook>>

AddLockItem(t) ==
    /\ tx[t].pc = "a_lock"
    /\ LET i == tx[t].p_menu_item_id IN
       IF i \notin DOMAIN menu_items
       THEN /\ tx' = [tx EXCEPT ![t] = Return(@, ItemNotFound)]
            /\ UNCHANGED item_lock
       ELSE /\ item_lock[i] = 0
            /\ item_lock' = [item_lock EXCEPT ![i] = t]
            /\ tx' = [tx EXCEPT ![t].pc = "a_cart",
                                ![t].v_available_quantity = menu_items[i].quantity_available]
    /\ UNCHANGED <<menu_items, cart_items, orders, order_items, cart_lock, stocked, dashboard, hook>>

\* The same check with <= for <: a request for all that is left is refused.
AddRefusedAtEqual(available, quantity) == available <= quantity

\* The stock check of lines 414-420: TRUE when the call is refused.
AddRefused(available, quantity) == available < quantity

\* The same statements with the item's row lock given up once the stock check
\* has passed, before the UPDATE and the upsert.
AddReadCartReleasing(t) ==
    /\ tx[t].pc = "a_cart"
    /\ LET c == tx[t]
           rows == CartRowsOf(cart_items, c.p_user_id, c.p_menu_item_id)
           cur == IF rows = {} THEN 0 ELSE (CHOOSE r \in rows : TRUE).quantity
       IN IF AddRefused(c.v_available_quantity, c.p_quantity)
          THEN tx' = [tx EXCEPT ![t] = Return(@, OnlyAvailable(c.v_available_quantity))]
          ELSE tx' = [tx EXCEPT ![t].pc = "a_upsert", ![t].v_current_cart_quantity = cur]
    /\ item_lock' = Release(item_lock, t)
    /\ UNCHANGED <<menu_items, cart_items, orders, order_items, cart_lock, stocked, dashboard, hook>>

\* The same statements with the item's row lock left behind by the refusal's
\* early RETURN.
AddReadCartKeepsLock(t) ==
    /\ tx[t].pc = "a_cart"
    /\ LET c == tx[t]
           rows == CartRowsOf(cart_items, c.p_user_id, c.p_menu_item_id)
           cur == IF rows = {} THEN 0 ELSE (CHOOSE r \in rows : TRUE).quantity
       IN IF AddRefused(c.v_available_quantity, c.p_quantity)
          THEN /\ tx' = [tx EXCEPT ![t] = Return(@, OnlyAvailable(c.v_available_quantity))]
               /\ UNCHANGED item_lock
          ELSE /\ tx' = [tx EXCEPT ![t].pc = "a_upsert", ![t].v_current_cart_quantity = cur]
               /\ UNCHANGED item_lock
    /\ UNCHANGED <<menu_items, cart_items, orders, order_items, cart_lock, stocked, dashboard, hook>>

\* The same statements with the UPDATE of menu_items moved before the stock
\* check: the refusal returns (and commits) after the stock was decremented.
AddReadCartUpdateFirst(t) ==
    /\ tx[t].pc = "a_cart"
    /\ LET c == tx[t]
           rows == CartRowsOf(cart_items, c.p_user_id, c.p_menu_item_id)
           cur == IF rows = {} THEN 0 ELSE (CHOOSE r \in rows : TRUE).quantity
       IN IF AddRefused(c.v_available_quantity, c.p_quantity)
          THEN /\ tx' = [tx EXCEPT ![t] = Return(@, OnlyAvailable(c.v_available_quantity))]
               /\ menu_items' = [menu_items EXCEPT
                       ![c.p_menu_item_id].quantity_available = @ - c.p_quantity]
               /\ item_lock' = Release(item_lock, t)
          ELSE /\ tx' = [tx EXCEPT ![t].pc = "a_upsert", ![t].v_current_cart_quantity = cur]
               /\ UNCHANGED <<menu_items, item_lock>>
    /\ UNCHANGED <<cart_items, orders, order_items, cart_lock, stocked, dashboard, hook>>

\* SELECT quantity FROM cart_items (unlocked), the stock check, and the UPDATE of
\* the locked menu_items row, pending until the function returns (lines 404-426).
AddReadCart(t) ==
    /\ tx[t].pc = "a_cart"
    /\ LET c == tx[t]
           rows == CartRowsOf(cart_items, c.p_user_id, c.p_menu_item_id)
           cur == IF rows = {} THEN 0 ELSE (CHOOSE r \in rows : TRUE).quantity
       IN IF AddRefused(c.v_available_quantity, c.p_quantity)
          THEN /\ tx' = [tx EXCEPT ![t] = Return(@, OnlyAvailable(c.v_available_quantity))]
               /\ item_lock' = Release(item_lock, t)
          ELSE /\ tx' = [tx EXCEPT ![t].pc = "a_upsert", ![t].v_current_cart_quantity = cur]
               /\ UNCHANGED item_lock
    /\ UNCHANGED <<menu_items, cart_items, orders, order_items, cart_lock, stocked, dashboard, hook>>

\* A plain INSERT on a table without the unique key: a row is added whether or
\* not the user has a line for the item.
UpsertAlwaysInserts(cart, u, i, insert_quantity, add_quantity) ==
    cart \cup {[user_id |-> u, menu_item_id |-> i, quantity |-> insert_quantity]}

\* INSERT ... ON CONFLICT (user_id, menu_item_id) DO UPDATE (lines 428-435): the
\* row inserted when no row has the key, else the existing row incremented.
Upsert(cart, u, i, insert_quantity, add_quantity) ==
    LET rows == CartRowsOf(cart, u, i) IN
    IF rows = {}
    THEN cart \cup {[user_id |-> u, menu_item_id |-> i, quantity |-> insert_quantity]}
    ELSE (cart \ rows) \cup {[r EXCEPT !.quantity = r.quantity + add_quantity] : r \in rows}

\* The upsert of the cart row, which waits for a lock on the existing row, then
\* RETURN and commit of the pending UPDATE (lines 422-443).
AddUpsert(t) ==
    /\ tx[t].pc = "a_upsert"
    /\ LET c == tx[t]
           i == c.p_menu_item_id
           id == [user_id |-> c.p_user_id, menu_item_id |-> i]
       IN /\ CartRowsOf(cart_items, c.p_user_id, i) # {} => cart_lock[id] = 0
          /\ menu_items' = [menu_items EXCEPT ![i].quantity_available = @ - c.p_quantity]
          /\ cart_items' = Upsert(cart_items, c.p_user_id, i,
                                  c.v_current_cart_quantity + c.p_quantity, c.p_quantity)
          /\ tx' = [tx EXCEPT ![t] = Return(@,
                        Added(id, c.v_current_cart_quantity + c.p_quantity,
                              c.v_available_quantity - c.p_quantity))]
    /\ item_lock' = Release(item_lock, t)
    /\ UNCHANGED <<orders, order_items, cart_lock, stocked, dashboard, hook>>

\* ------------------------------------- remove_from_cart_with_quantity_restore

\* A call and its check of the caller (lines 468-474).
RemoveCall(t, uid, u, id) ==
    /\ CanStart(t)
    /\ LET c == [IdleTx EXCEPT !.op = "remove", !.auth_uid = uid, !.p_user_id = u,
                               !.p_cart_item_id = id]
       IN tx' = [tx EXCEPT ![t] = IF IfTaken(SqlNotEqual(uid, u))
                                  THEN Return(c, Unauthorized)
                                  ELSE [c EXCEPT !.pc = "r_lock"]]
    /\ UNCHANGED <<menu_items, cart_items, orders, order_items, item_lock, cart_lock, stocked, dashboard, hook>>

RemoveBegin(t) == \E u \in Users, id \in CartIds : RemoveCall(t, u, u, id)

RemoveBeginAs(t) == \E uid \in Callers, u \in Users, id \in CartIds : RemoveCall(t, uid, u, id)

\* SELECT menu_item_id, quantity ... WHERE id = p_cart_item_id AND user_id =
\* p_user_id FOR UPDATE, and the check that a row was found (lines 476-488, and
\* 546-558 in update_cart_quantity_with_stock_check). next is the position after it.
\* The same SELECT without FOR UPDATE: the row is read whoever holds its lock.
LockCartRowUnlocked(t, next) ==
    LET c == tx[t]
        rows == CartRowsById(cart_items, c.p_cart_item_id, c.p_user_id)
    IN IF rows = {}
       THEN /\ tx' = [tx EXCEPT ![t] = Return(@, CartItemNotFound)]
            /\ UNCHANGED cart_lock
       ELSE /\ tx' = [tx EXCEPT ![t].pc = next,
                                ![t].v_current_cart_quantity = (CHOOSE r \in rows : TRUE).quantity]
            /\ UNCHANGED cart_lock

LockCartRow(t, next) ==
    LET c == tx[t]
        rows == CartRowsById(cart_items, c.p_cart_item_id, c.p_user_id)
    IN IF rows = {}
       THEN /\ tx' = [tx EXCEPT ![t] = Return(@, CartItemNotFound)]
            /\ UNCHANGED cart_lock
       ELSE /\ cart_lock[c.p_cart_item_id] = 0
            /\ cart_lock' = [cart_lock EXCEPT ![c.p_cart_item_id] = t]
            /\ tx' = [tx EXCEPT ![t].pc = next,
                                ![t].v_current_cart_quantity = (CHOOSE r \in rows : TRUE).quantity]

RemoveLockCart(t) ==
    /\ tx[t].pc = "r_lock"
    /\ LockCartRow(t, "r_write")
    /\ UNCHANGED <<menu_items, cart_items, orders, order_items, item_lock, stocked, dashboard, hook>>

\* The same UPDATE restoring one unit whatever the line's quantity.
RestoredOne(available, quantity) == available + 1

\* The quantity_available the UPDATE of lines 490-494 writes.
Restored(available, quantity) == available + quantity

\* The same statements with a DELETE that matches no row: the stock is restored
\* and the line stays.
RemoveWriteKeepsLine(t) ==
    /\ tx[t].pc = "r_write"
    /\ LET c == tx[t]
           i == c.p_cart_item_id.menu_item_id
       IN /\ item_lock[i] = 0
          /\ menu_items' = [menu_items EXCEPT
                  ![i].quantity_available = Restored(@, c.v_current_cart_quantity)]
          /\ tx' = [tx EXCEPT ![t] = Return(@, Removed(c.v_current_cart_quantity))]
    /\ cart_lock' = Release(cart_lock, t)
    /\ UNCHANGED <<cart_items, orders, order_items, item_lock, stocked, dashboard, hook>>

\* UPDATE menu_items (waits for the item's row lock), DELETE of the cart row,
\* RETURN and commit (lines 490-504).
RemoveWrite(t) ==
    /\ tx[t].pc = "r_write"
    /\ LET c == tx[t]
           i == c.p_cart_item_id.menu_item_id
       IN /\ item_lock[i] = 0
          /\ menu_items' = [menu_items EXCEPT
                  ![i].quantity_available = Restored(@, c.v_current_cart_quantity)]
          /\ cart_items' = cart_items \ CartRowsById(cart_items, c.p_cart_item_id, c.p_user_id)
          /\ tx' = [tx EXCEPT ![t] = Return(@, Removed(c.v_current_cart_quantity))]
    /\ cart_lock' = Release(cart_lock, t)
    /\ UNCHANGED <<orders, order_items, item_lock, stocked, dashboard, hook>>

\* -------------------------------------- update_cart_quantity_with_stock_check

\* The same test with < for <=: a new quantity of 0 is not handed over.
HandedToRemoveNegative(new_quantity) == new_quantity < 0

\* p_new_quantity <= 0 (line 541): the call is handed to the remove function.
HandedToRemove(new_quantity) == new_quantity <= 0

\* The call, its check of the caller, and the hand-over to
\* remove_from_cart_with_quantity_restore when p_new_quantity <= 0 (lines 532-544).
UpdateCall(t, uid, u, id, q) ==
    /\ CanStart(t)
    /\ LET c == [IdleTx EXCEPT !.op = "update", !.auth_uid = uid, !.p_user_id = u,
                               !.p_cart_item_id = id, !.p_quantity = q]
       IN tx' = [tx EXCEPT ![t] = IF IfTaken(SqlNotEqual(uid, u))
                                  THEN Return(c, Unauthorized)
                                  ELSE IF HandedToRemove(q) THEN [c EXCEPT !.pc = "r_lock"]
                                  ELSE [c EXCEPT !.pc = "u_lock"]]
    /\ UNCHANGED <<menu_items, cart_items, orders, order_items, item_lock, cart_lock, stocked, dashboard, hook>>

UpdateBegin(t) == \E u \in Users, id \in CartIds, q \in Quantities : UpdateCall(t, u, u, id, q)

UpdateBeginAs(t) ==
    \E uid \in Callers, u \in Users, id \in CartIds, q \in {0, 1} : UpdateCall(t, uid, u, id, q)

UpdateLockCart(t) ==
    /\ tx[t].pc = "u_lock"
    /\ LockCartRow(t, "u_write")
    /\ UNCHANGED <<menu_items, cart_items, orders, order_items, item_lock, stocked, dashboard, hook>>

\* The stock check of lines 569-575: TRUE when the call is refused.
UpdateRefused(available, diff) == diff > 0 /\ available < diff

\* The same statements with the difference added to the stock, not subtracted.
UpdateWriteSignFlipped(t) ==
    /\ tx[t].pc = "u_write"
    /\ LET c == tx[t]
           i == c.p_cart_item_id.menu_item_id
           available == menu_items[i].quantity_available
           diff == c.p_quantity - c.v_current_cart_quantity
           rows == CartRowsById(cart_items, c.p_cart_item_id, c.p_user_id)
       IN /\ item_lock[i] = 0
          /\ IF UpdateRefused(available, diff)
             THEN /\ tx' = [tx EXCEPT ![t] = Return(@, OnlyAdditional(available))]
                  /\ UNCHANGED <<menu_items, cart_items>>
             ELSE /\ menu_items' = [menu_items EXCEPT ![i].quantity_available = @ + diff]
                  /\ cart_items' = (cart_items \ rows) \cup
                                   {[r EXCEPT !.quantity = c.p_quantity] : r \in rows}
                  /\ tx' = [tx EXCEPT ![t] = Return(@,
                                Updated(c.v_current_cart_quantity, c.p_quantity,
                                        available - diff))]
    /\ cart_lock' = Release(cart_lock, t)
    /\ UNCHANGED <<orders, order_items, item_lock, stocked, dashboard, hook>>

\* The same statements with the UPDATE of cart_items moved before the stock
\* check: the refusal returns (and commits) after the cart row was changed.
UpdateWriteCartFirst(t) ==
    /\ tx[t].pc = "u_write"
    /\ LET c == tx[t]
           i == c.p_cart_item_id.menu_item_id
           available == menu_items[i].quantity_available
           diff == c.p_quantity - c.v_current_cart_quantity
           rows == CartRowsById(cart_items, c.p_cart_item_id, c.p_user_id)
       IN /\ item_lock[i] = 0
          /\ cart_items' = (cart_items \ rows) \cup
                           {[r EXCEPT !.quantity = c.p_quantity] : r \in rows}
          /\ IF UpdateRefused(available, diff)
             THEN /\ tx' = [tx EXCEPT ![t] = Return(@, OnlyAdditional(available))]
                  /\ UNCHANGED menu_items
             ELSE /\ menu_items' = [menu_items EXCEPT ![i].quantity_available = @ - diff]
                  /\ tx' = [tx EXCEPT ![t] = Return(@,
                                Updated(c.v_current_cart_quantity, c.p_quantity,
                                        available - diff))]
    /\ cart_lock' = Release(cart_lock, t)
    /\ UNCHANGED <<orders, order_items, item_lock, stocked, dashboard, hook>>

\* SELECT quantity_available ... FOR UPDATE (waits for the item's row lock), the
\* difference and its stock check, both UPDATEs, RETURN and commit (lines 560-595).
UpdateWrite(t) ==
    /\ tx[t].pc = "u_write"
    /\ LET c == tx[t]
           i == c.p_cart_item_id.menu_item_id
           available == menu_items[i].quantity_available
           diff == c.p_quantity - c.v_current_cart_quantity
           rows == CartRowsById(cart_items, c.p_cart_item_id, c.p_user_id)
       IN /\ item_lock[i] = 0
          /\ IF UpdateRefused(available, diff)
             THEN /\ tx' = [tx EXCEPT ![t] = Return(@, OnlyAdditional(available))]
                  /\ UNCHANGED <<menu_items, cart_items>>
             ELSE /\ menu_items' = [menu_items EXCEPT ![i].quantity_available = @ - diff]
                  /\ cart_items' = (cart_items \ rows) \cup
                                   {[r EXCEPT !.quantity = c.p_quantity] : r \in rows}
                  /\ tx' = [tx EXCEPT ![t] = Return(@,
                                Updated(c.v_current_cart_quantity, c.p_quantity,
                                        available - diff))]
    /\ cart_lock' = Release(cart_lock, t)
    /\ UNCHANGED <<orders, order_items, item_lock, stocked, dashboard, hook>>

\* ------------------------------------------------ place_order_with_cart_clear

\* A call and its check of the caller (lines 620-626).
CheckoutCall(t, uid, u) ==
    /\ CanStart(t)
    /\ LET c == [IdleTx EXCEPT !.op = "checkout", !.auth_uid = uid, !.p_user_id = u]
       IN tx' = [tx EXCEPT ![t] = IF IfTaken(SqlNotEqual(uid, u))
                                  THEN Return(c, Unauthorized)
                                  ELSE [c EXCEPT !.pc = "c_exists"]]
    /\ UNCHANGED <<menu_items, cart_items, orders, order_items, item_lock, cart_lock, stocked, dashboard, hook>>

CheckoutBegin(t) == \E u \in Users : CheckoutCall(t, u, u)

CheckoutBeginAs(t) == \E uid \in Callers, u \in Users : CheckoutCall(t, uid, u)

\* IF NOT EXISTS (SELECT 1 FROM cart_items WHERE user_id = p_user_id) (lines 628-634).
CheckoutExists(t) ==
    /\ tx[t].pc = "c_exists"
    /\ tx' = [tx EXCEPT ![t] = IF CartOfUser(cart_items, @.p_user_id) = {}
                               THEN Return(@, EmptyCart)
                               ELSE [@ EXCEPT !.pc = "c_sum"]]
    /\ UNCHANGED <<menu_items, cart_items, orders, order_items, item_lock, cart_lock, stocked, dashboard, hook>>

\* SELECT COALESCE(SUM(ci.quantity * mi.price), 0), and the INSERT INTO orders that
\* is pending until the function returns (lines 636-645).
CheckoutSum(t) ==
    /\ tx[t].pc = "c_sum"
    /\ tx' = [tx EXCEPT ![t].pc = "c_loop",
                        ![t].v_total_amount =
                            SumAmount(CartOfUser(cart_items, tx[t].p_user_id), menu_items)]
    /\ UNCHANGED <<menu_items, cart_items, orders, order_items, item_lock, cart_lock, stocked, dashboard, hook>>

\* The rows of the FOR loop's query, one pending order_items row each (lines 647-656).
CheckoutLoop(t) ==
    /\ tx[t].pc = "c_loop"
    /\ tx' = [tx EXCEPT ![t].pc = "c_delete",
                        ![t].v_lines =
                            {[menu_item_id |-> r.menu_item_id, quantity |-> r.quantity,
                              price |-> menu_items[r.menu_item_id].price] :
                                 r \in CartOfUser(cart_items, tx[t].p_user_id)}]
    /\ UNCHANGED <<menu_items, cart_items, orders, order_items, item_lock, cart_lock, stocked, dashboard, hook>>

\* The same statements with the stock decremented again for every order line.
CheckoutDeleteDeducting(t) ==
    /\ tx[t].pc = "c_delete"
    /\ LET c == tx[t]
           rows == CartOfUser(cart_items, c.p_user_id)
           order_id == Cardinality(orders) + 1
       IN /\ \A r \in rows : cart_lock[CartId(r)] = 0
          /\ orders' = orders \cup {[id |-> order_id, user_id |-> c.p_user_id,
                                     total_amount |-> c.v_total_amount,
                                     status |-> "pending", payment_status |-> "pending"]}
          /\ order_items' = order_items \cup
                 {[order_id |-> order_id, menu_item_id |-> l.menu_item_id,
                   quantity |-> l.quantity, price |-> l.price] : l \in c.v_lines}
          /\ menu_items' = [i \in DOMAIN menu_items |->
                 [menu_items[i] EXCEPT !.quantity_available =
                      @ - SumQty({l \in c.v_lines : l.menu_item_id = i})]]
          /\ cart_items' = cart_items \ rows
          /\ tx' = [tx EXCEPT ![t] = Return(@, Ordered(order_id, c.v_total_amount))]
    /\ UNCHANGED <<item_lock, cart_lock, stocked, dashboard, hook>>

\* The same statements with the lines put into the order the user has pending,
\* if there is one, and its total_amount raised.
CheckoutDeleteIntoPending(t) ==
    /\ tx[t].pc = "c_delete"
    /\ LET c == tx[t]
           rows == CartOfUser(cart_items, c.p_user_id)
           pending == {o \in orders : o.user_id = c.p_user_id /\ o.status = "pending"}
           order_id == IF pending = {} THEN Cardinality(orders) + 1
                       ELSE (CHOOSE o \in pending : TRUE).id
       IN /\ \A r \in rows : cart_lock[CartId(r)] = 0
          /\ orders' = IF pending = {}
                       THEN orders \cup {[id |-> order_id, user_id |-> c.p_user_id,
                                           total_amount |-> c.v_total_amount,
                                           status |-> "pending", payment_status |-> "pending"]}
                       ELSE {IF o.id = order_id
                             THEN [o EXCEPT !.total_amount = @ + c.v_total_amount]
                             ELSE o : o \in orders}
          /\ order_items' = order_items \cup
                 {[order_id |-> order_id, menu_item_id |-> l.menu_item_id,
                   quantity |-> l.quantity, price |-> l.price] : l \in c.v_lines}
          /\ cart_items' = cart_items \ rows
          /\ tx' = [tx EXCEPT ![t] = Return(@, Ordered(order_id, c.v_total_amount))]
    /\ UNCHANGED <<menu_items, item_lock, cart_lock, stocked, dashboard, hook>>

\* DELETE FROM cart_items WHERE user_id = p_user_id (waits for the locks on the
\* rows it deletes), RETURN and commit of the order and its lines (lines 658-666).
CheckoutDelete(t) ==
    /\ tx[t].pc = "c_delete"
    /\ LET c == tx[t]
           rows == CartOfUser(cart_items, c.p_user_id)
           order_id == Cardinality(orders) + 1
       IN /\ \A r \in rows : cart_lock[CartId(r)] = 0
          /\ orders' = orders \cup {[id |-> order_id, user_id |-> c.p_user_id,
                                     total_amount |-> c.v_total_amount,
                                     status |-> "pending", payment_status |-> "pending"]}
          /\ order_items' = order_items \cup
                 {[order_id |-> order_id, menu_item_id |-> l.menu_item_id,
                   quantity |-> l.quantity, price |-> l.price] : l \in c.v_lines}
          /\ cart_items' = cart_items \ rows
          /\ tx' = [tx EXCEPT ![t] = Return(@, Ordered(order_id, c.v_total_amount))]
    /\ UNCHANGED <<menu_items, item_lock, cart_lock, stocked, dashboard, hook>>

\* ------------------------------------------------------------ menu management

\* The menu management (outside this code) changes the price of a menu item: an
\* UPDATE of the menu_items row, which waits for the row's lock.
ChangePrice(i) ==
    /\ item_lock[i] = 0
    /\ \E p \in Prices \ {menu_items[i].price} :
           menu_items' = [menu_items EXCEPT ![i].price = p]
    /\ UNCHANGED <<cart_items, orders, order_items, item_lock, cart_lock, tx, stocked, dashboard, hook>>

\* ------------------------------------------------------------ deadlock

\* The transaction that holds the row lock the next statement of t waits for
\* (0: t does not wait).
WaitsFor(t) ==
    LET c == tx[t] IN
    IF c.pc = "a_lock" /\ c.p_menu_item_id \in DOMAIN menu_items
    THEN item_lock[c.p_menu_item_id]
    ELSE IF c.pc = "a_upsert" /\ CartRowsOf(cart_items, c.p_user_id, c.p_menu_item_id) # {}
    THEN cart_lock[[user_id |-> c.p_user_id, menu_item_id |-> c.p_menu_item_id]]
    ELSE IF c.pc \in {"r_lock", "u_lock"}
            /\ CartRowsById(cart_items, c.p_cart_item_id, c.p_user_id) # {}
    THEN cart_lock[c.p_cart_item_id]
    ELSE IF c.pc \in {"r_write", "u_write"}
    THEN item_lock[c.p_cart_item_id.menu_item_id]
    ELSE 0

Deadlocked(t) == WaitsFor(t) # 0 /\ WaitsFor(WaitsFor(t)) = t

\* The same end of a lock cycle with the error raised again by the handler
\* (RAISE), so that the call ends with an exception and no result object.
DeadlockAbortRaising(t) ==
    /\ Deadlocked(t)
    /\ tx' = [tx EXCEPT ![t] = Return(@, [raised |-> "deadlock detected"])]
    /\ item_lock' = Release(item_lock, t)
    /\ cart_lock' = Release(cart_lock, t)
    /\ UNCHANGED <<menu_items, cart_items, orders, order_items, stocked, dashboard, hook>>

\* The same end of a lock cycle with the handler returning a business error.
DeadlockAbortAsNotFound(t) ==
    /\ Deadlocked(t)
    /\ tx' = [tx EXCEPT ![t] = Return(@, CartItemNotFound)]
    /\ item_lock' = Release(item_lock, t)
    /\ cart_lock' = Release(cart_lock, t)
    /\ UNCHANGED <<menu_items, cart_items, orders, order_items, stocked, dashboard, hook>>

\* The database ends a lock cycle by raising an error in one of its transactions;
\* EXCEPTION WHEN OTHERS rolls the function's statements back and returns the
\* error (lines 445-451, 506-512, 597-603).
DeadlockAbort(t) ==
    /\ Deadlocked(t)
    /\ tx' = [tx EXCEPT ![t] = Return(@, DatabaseError)]
    /\ item_lock' = Release(item_lock, t)
    /\ cart_lock' = Release(cart_lock, t)
    /\ UNCHANGED <<menu_items, cart_items, orders, order_items, stocked, dashboard, hook>>

Next ==
    \E t \in Tx :
        \/ AddBegin(t)
        \/ AddLockItem(t)
        \/ AddReadCart(t)
        \/ AddUpsert(t)
        \/ RemoveBegin(t)
        \/ RemoveLockCart(t)
        \/ RemoveWrite(t)
        \/ UpdateBegin(t)
        \/ UpdateLockCart(t)
        \/ UpdateWrite(t)
        \/ CheckoutBegin(t)
        \/ CheckoutExists(t)
        \/ CheckoutSum(t)
        \/ CheckoutLoop(t)
        \/ CheckoutDelete(t)
        \/ DeadlockAbort(t)

Spec == Init /\ [][Next]_vars

\* The same functions with addItem called with the documented quantities only.
NextPositive ==
    \E t \in Tx :
        \/ AddBeginPositive(t)
        \/ AddLockItem(t)
        \/ AddReadCart(t)
        \/ AddUpsert(t)
        \/ RemoveBegin(t)
        \/ RemoveLockCart(t)
        \/ RemoveWrite(t)
        \/ UpdateBegin(t)
        \/ UpdateLockCart(t)
        \/ UpdateWrite(t)
        \/ CheckoutBegin(t)
        \/ CheckoutExists(t)
        \/ CheckoutSum(t)
        \/ CheckoutLoop(t)
        \/ CheckoutDelete(t)
        \/ DeadlockAbort(t)

SpecPositive == Init /\ [][NextPositive]_vars

\* The same functions called by any session, signed in as the user named in
\* p_user_id, as somebody else, or not signed in.
NextAnyCaller ==
    \E t \in Tx :
        \/ AddBeginAs(t)
        \/ AddLockItem(t)
        \/ AddReadCart(t)
        \/ AddUpsert(t)
        \/ RemoveBeginAs(t)
        \/ RemoveLockCart(t)
        \/ RemoveWrite(t)
        \/ UpdateBeginAs(t)
        \/ UpdateLockCart(t)
        \/ UpdateWrite(t)
        \/ CheckoutBeginAs(t)
        \/ CheckoutExists(t)
        \/ CheckoutSum(t)
        \/ CheckoutLoop(t)
        \/ CheckoutDelete(t)
        \/ DeadlockAbort(t)

SpecAnyCaller == Init /\ [][NextAnyCaller]_vars

\* The same functions while the menu management changes prices, with addItem
\* called for ids of menu items and for an id that names no menu item.
NextCatalog ==
    \/ \E t \in Tx :
        \/ AddBeginAnyItem(t)
        \/ AddLockItem(t)
        \/ AddReadCart(t)
        \/ AddUpsert(t)
        \/ RemoveBegin(t)
        \/ RemoveLockCart(t)
        \/ RemoveWrite(t)
        \/ UpdateBegin(t)
        \/ UpdateLockCart(t)
        \/ UpdateWrite(t)
        \/ CheckoutBegin(t)
        \/ CheckoutExists(t)
        \/ CheckoutSum(t)
        \/ CheckoutLoop(t)
        \/ CheckoutDelete(t)
        \/ DeadlockAbort(t)
    \/ \E i \in Items : ChangePrice(i)

SpecCatalog == Init /\ [][NextCatalog]_vars

\* The cart functions on a menu of two items.
TwoItems == {"X", "Z"}
TwoItemCartIds == [user_id : Users, menu_item_id : TwoItems]

InitTwoItems ==
    /\ menu_items \in [TwoItems -> [quantity_available : 0..MaxStock, price : {2}]]
    /\ cart_items = {}
    /\ orders = {}
    /\ order_items = {}
    /\ item_lock = [i \in TwoItems |-> 0]
    /\ cart_lock = [k \in TwoItemCartIds |-> 0]
    /\ tx = [t \in Tx |-> IdleTx]
    /\ stocked = [i \in TwoItems |-> menu_items[i].quantity_available]
    /\ DashboardInit
    /\ HookInit

AddBeginTwoItems(t) == \E u \in Users, i \in TwoItems : AddCall(t, u, u, i, 1)

RemoveBeginTwoItems(t) == \E u \in Users, id \in TwoItemCartIds : RemoveCall(t, u, u, id)

UpdateBeginTwoItems(t) ==
    \E u \in Users, id \in TwoItemCartIds, q \in 1..MaxQty : UpdateCall(t, u, u, id, q)

\* The next statement of a running addItem, removeItem or setQuantity call.
StepOf(t) ==
    \/ AddLockItem(t)
    \/ AddReadCart(t)
    \/ AddUpsert(t)
    \/ RemoveLockCart(t)
    \/ RemoveWrite(t)
    \/ UpdateLockCart(t)
    \/ UpdateWrite(t)

NextTwoItems ==
    \E t \in Tx :
        \/ AddBeginTwoItems(t)
        \/ AddLockItem(t)
        \/ AddReadCart(t)
        \/ AddUpsert(t)
        \/ RemoveBeginTwoItems(t)
        \/ RemoveLockCart(t)
        \/ RemoveWrite(t)
        \/ UpdateBeginTwoItems(t)
        \/ UpdateLockCart(t)
        \/ UpdateWrite(t)
        \/ DeadlockAbort(t)

SpecTwoItems == InitTwoItems /\ [][NextTwoItems]_vars

\* The next statement of a running call of any of the four functions, or the
\* end the database puts to it when it waits in a lock cycle.
Run(t) ==
    \/ StepOf(t)
    \/ CheckoutExists(t)
    \/ CheckoutSum(t)
    \/ CheckoutLoop(t)
    \/ CheckoutDelete(t)
    \/ DeadlockAbort(t)

\* The database executes the next statement of every call that is not waiting
\* for a lock, and detects lock cycles: a call whose next step stays possible
\* takes it. Sessions are free to issue calls or not.
AddBeginOne(t) == \E u \in Users, i \in Items : AddCall(t, u, u, i, 1)

UpdateBeginPositive(t) ==
    \E u \in Users, id \in CartIds, q \in 1..MaxQty : UpdateCall(t, u, u, id, q)

NextFair ==
    \E t \in Tx :
        \/ AddBeginOne(t)
        \/ RemoveBegin(t)
        \/ UpdateBeginPositive(t)
        \/ CheckoutBegin(t)
        \/ AddLockItem(t)
        \/ AddReadCart(t)
        \/ AddUpsert(t)
        \/ RemoveLockCart(t)
        \/ RemoveWrite(t)
        \/ UpdateLockCart(t)
        \/ UpdateWrite(t)
        \/ CheckoutExists(t)
        \/ CheckoutSum(t)
        \/ CheckoutLoop(t)
        \/ CheckoutDelete(t)
        \/ DeadlockAbort(t)

SpecFair == Init /\ [][NextFair]_vars /\ \A t \in Tx : WF_vars(Run(t))

\* ------------------------------------------------------------ StudentDashboard
\* The dashboard of one signed-in user: its state menuItems and cartItems, its
\* fetches, the realtime events it receives and the handlers of its buttons.
\* Requests are answered and events delivered in any order. The subscriptions
\* are taken to deliver every change made after the mount.

\* user?.id of the dashboard.
Me == "u1"

\* A fetch under way: kind is "menu" (fetchMenuItems) or "cart"
\* (fetchCartItems); by names what issued it; state is "sent" until the
\* database has run the SELECT, then "answered" with the rows read.
Request(kind, src, n) ==
    [kind |-> kind, by |-> [src |-> src, n |-> n], state |-> "sent",
     menu |-> [i \in {} |-> 0], cart |-> {}]

\* The realtime server has emitted the events of every committed change.
Synced == published.menu = menu_items /\ published.cart = CartOfUser(cart_items, Me)

\* The change events of the rows that differ from the rows last published: one
\* per row of menu_items, and one per row of cart_items of the dashboard's user
\* (filter user_id=eq.<user id>, line 88).
Changes(lsn) ==
    {[table |-> "menu_items", eventType |-> "UPDATE", lsn |-> lsn, id |-> i,
      quantity |-> menu_items[i].quantity_available] :
        i \in {j \in DOMAIN menu_items : menu_items[j] # published.menu[j]}}
    \cup
    {[table |-> "cart_items",
      eventType |-> IF \E o \in published.cart : CartId(o) = CartId(r)
                    THEN "UPDATE" ELSE "INSERT",
      lsn |-> lsn, id |-> r.menu_item_id, quantity |-> r.quantity] :
        r \in CartOfUser(cart_items, Me) \ published.cart}
    \cup
    {[table |-> "cart_items", eventType |-> "DELETE", lsn |-> lsn,
      id |-> o.menu_item_id, quantity |-> o.quantity] :
        o \in {x \in published.cart :
                  ~\E r \in CartOfUser(cart_items, Me) : CartId(r) = CartId(x)}}

\* The first effect (lines 105-109): fetchMenuItems() and fetchCartItems() are
\* started together (fetchOrders, which sets neither state, is left out).
Mount ==
    /\ ~mounted
    /\ mounted' = TRUE
    /\ requests' = requests \cup {Request("menu", "mount", 0), Request("cart", "mount", 0)}
    /\ UNCHANGED <<menuItems, cartItems, events, published, handlers, backend, hook>>

\* The database runs the SELECT of a fetch (lines 113-116, 129-135).
Serve(r) ==
    /\ r \in requests /\ r.state = "sent"
    /\ requests' = (requests \ {r}) \cup
          {[r EXCEPT !.state = "answered",
                     !.menu = IF r.kind = "menu" THEN menu_items ELSE @,
                     !.cart = IF r.kind = "cart" THEN CartOfUser(cart_items, Me) ELSE @]}
    /\ UNCHANGED <<mounted, menuItems, cartItems, events, published, handlers, backend, hook>>

\* The response of a fetch arrives: setMenuItems(data) (line 120) or
\* setCartItems(data) (line 138); a button handler that awaited it goes on
\* (await fetchCartItems(); await fetchMenuItems(), lines 187-188, 244-245).
Receive(r) ==
    /\ r \in requests /\ r.state = "answered"
    /\ menuItems' = IF r.kind = "menu" THEN r.menu ELSE menuItems
    /\ cartItems' = IF r.kind = "cart" THEN r.cart ELSE cartItems
    /\ IF r.by.src = "call"
       THEN IF r.kind = "cart"
            THEN /\ requests' = (requests \ {r}) \cup {Request("menu", "call", r.by.n)}
                 /\ handlers' = [handlers EXCEPT ![r.by.n] = "menu"]
            ELSE /\ requests' = requests \ {r}
                 /\ handlers' = [handlers EXCEPT ![r.by.n] = "end"]
       ELSE /\ requests' = requests \ {r}
            /\ UNCHANGED handlers
    /\ UNCHANGED <<mounted, events, published, backend, hook>>

\* The realtime server emits the events of the last committed change.
Publish ==
    /\ ~Synced
    /\ published' = [menu |-> menu_items, cart |-> CartOfUser(cart_items, Me),
                     lsn |-> published.lsn + 1]
    /\ events' = IF mounted THEN events \cup Changes(published.lsn + 1) ELSE events
    /\ UNCHANGED <<mounted, menuItems, cartItems, requests, handlers, backend, hook>>

\* An event is delivered: onUpdate of menu_items patches the row in menuItems
\* (lines 77-83); every handler of cart_items calls fetchCartItems() (lines 89-100).
DeliverEvent(e) ==
    /\ e \in events
    /\ events' = events \ {e}
    /\ IF e.table = "menu_items"
       THEN /\ menuItems' = [i \in DOMAIN menuItems |->
                                IF i = e.id
                                THEN [menuItems[i] EXCEPT !.quantity_available = e.quantity]
                                ELSE menuItems[i]]
            /\ UNCHANGED requests
       ELSE /\ requests' = requests \cup {Request("cart", "event", e.lsn)}
            /\ UNCHANGED menuItems
    /\ UNCHANGED <<mounted, cartItems, published, handlers, backend, hook>>

\* addToCart (lines 169-178): the button of a menu item.
AddToCart(t) ==
    mounted /\ t <= MaxClientCalls /\ \E i \in Items : AddCall(t, Me, Me, i, 1)

\* removeFromCart (lines 227-235): the button of a cart line shown.
RemoveFromCart(t) ==
    mounted /\ t <= MaxClientCalls /\ \E r \in cartItems : RemoveCall(t, Me, Me, CartId(r))

\* The handler after its rpc has returned (lines 180-191, 237-248): on success
\* it refreshes the cart and then the menu, else it shows the error.
AfterCall(t) ==
    /\ tx[t].pc = "done" /\ tx[t].p_user_id = Me /\ handlers[t] = "none"
    /\ IF tx[t].res.success
       THEN /\ requests' = requests \cup {Request("cart", "call", t)}
            /\ handlers' = [handlers EXCEPT ![t] = "cart"]
       ELSE /\ handlers' = [handlers EXCEPT ![t] = "end"]
            /\ UNCHANGED requests
    /\ UNCHANGED <<mounted, menuItems, cartItems, events, published, backend, hook>>

\* Calls of the other users, made while the dashboard is open.
OtherAdd(t) ==
    mounted /\ t <= MaxClientCalls
    /\ \E u \in Users \ {Me}, i \in Items : AddCall(t, u, u, i, 1)
OtherRemove(t) ==
    mounted /\ t <= MaxClientCalls
    /\ \E u \in Users \ {Me}, i \in Items :
          RemoveCall(t, u, u, [user_id |-> u, menu_item_id |-> i])

\* The commits in the order of the database's log: the events of a commit are
\* emitted before the next commit's. (With MaxClientCalls calls no two of them
\* wait for each other's locks.)
AddUpsertLogged(t) == Synced /\ AddUpsert(t)
RemoveWriteLogged(t) == Synced /\ RemoveWrite(t)

NextClient ==
    \/ Mount
    \/ \E r \in requests : Serve(r)
    \/ \E r \in requests : Receive(r)
    \/ Publish
    \/ \E e \in events : DeliverEvent(e)
    \/ \E t \in Tx :
        \/ AddToCart(t)
        \/ RemoveFromCart(t)
        \/ AfterCall(t)
        \/ OtherAdd(t)
        \/ OtherRemove(t)
        \/ AddLockItem(t)
        \/ AddReadCart(t)
        \/ AddUpsertLogged(t)
        \/ RemoveLockCart(t)
        \/ RemoveWriteLogged(t)

SpecClient == Init /\ [][NextClient]_vars

\* ----------------------------------------------------- useRealtimeSubscription
\* One use of the hook: effect runs and cleanups as React orders them (the
\* cleanup of an effect runs before the next run of that effect and at unmount).

\* The handlers a use passes: onUpdate alone (part_000 lines 75-84) or all
\* three (part_000 lines 86-101).
HandlerNames == {"onUpdate", "onInsert", "onDelete"}
Uses == {{"onUpdate"}, HandlerNames}
EventTypes == {"UPDATE", "INSERT", "DELETE"}

\* switch (payload.eventType) (lines 39-49): the handlers called for an event.
Dispatch(eventType) ==
    CASE eventType = "UPDATE" -> {"onUpdate"}
      [] eventType = "INSERT" -> {"onInsert"}
      [] eventType = "DELETE" -> {"onDelete"}

\* The effect (lines 21-63) when nothing throws: a channel is created and
\* subscribed and kept in subscription. props are the handlers of this render.
EffectRun(props) ==
    /\ effect = "none"
    /\ Len(channels) < MaxRenders
    /\ channels' = Append(channels, [state |-> "subscribed", props |-> props])
    /\ subscription' = Len(channels) + 1
    /\ effect' = "active"
    /\ UNCHANGED <<isConnected, called, backend, dashboard>>

\* The effect when the chain of lines 26-55 throws before the channel is
\* subscribed: the catch logs (lines 58-60) and subscription stays undefined.
EffectRunThrows(props) ==
    /\ effect = "none"
    /\ Len(channels) < MaxRenders
    /\ channels' = Append(channels, [state |-> "created", props |-> props])
    /\ subscription' = 0
    /\ effect' = "active"
    /\ UNCHANGED <<isConnected, called, backend, dashboard>>

\* The same cleanup without the unsubscribe.
CleanupForgets ==
    /\ effect = "active"
    /\ subscription' = 0
    /\ effect' = "none"
    /\ UNCHANGED <<channels, isConnected, called, backend, dashboard>>

\* The cleanup (lines 65-69).
Cleanup ==
    /\ effect = "active"
    /\ channels' = IF subscription # 0
                   THEN [channels EXCEPT ![subscription].state = "unsubscribed"]
                   ELSE channels
    /\ subscription' = 0
    /\ effect' = "none"
    /\ UNCHANGED <<isConnected, called, backend, dashboard>>

\* The status callback of subscribe (lines 52-55).
StatusCallback(c, status) ==
    /\ \/ channels[c].state = "subscribed"
          /\ status \in {"SUBSCRIBED", "CHANNEL_ERROR", "TIMED_OUT"}
       \/ channels[c].state = "unsubscribed" /\ status = "CLOSED"
    /\ isConnected' = (status = "SUBSCRIBED")
    /\ UNCHANGED <<channels, subscription, effect, called, backend, dashboard>>

\* A change event delivered on a subscribed channel (lines 36-50): the handlers
\* of the render that created the channel are the ones called.
DeliverChange(c, eventType) ==
    /\ channels[c].state = "subscribed"
    /\ called' = called \cup {[channel |-> c, eventType |-> eventType, handler |-> h] :
                                h \in Dispatch(eventType) \cap channels[c].props}
    /\ UNCHANGED <<channels, subscription, effect, isConnected, backend, dashboard>>

NextHook ==
    \/ \E props \in Uses : EffectRun(props)
    \/ \E props \in Uses : EffectRunThrows(props)
    \/ Cleanup
    \/ \E c \in DOMAIN channels :
          \E status \in {"SUBSCRIBED", "CHANNEL_ERROR", "TIMED_OUT", "CLOSED"} :
              StatusCallback(c, status)
    \/ \E c \in DOMAIN channels, eventType \in EventTypes : DeliverChange(c, eventType)

SpecHook == Init /\ [][NextHook]_vars

\* ------------------------------------------------- one call run on its own
\* Each function run from its first statement to its RETURN with no other
\* transaction in between, on the database d = [menu, cart, orders, lines];
\* c holds the arguments. The value is the database left and the result returned.

\* add_to_cart_with_quantity_check (lines 382-443)
AddAtomic(d, c) ==
    LET i == c.p_menu_item_id
        available == d.menu[i].quantity_available
        rows == CartRowsOf(d.cart, c.p_user_id, i)
        cur == IF rows = {} THEN 0 ELSE (CHOOSE r \in rows : TRUE).quantity
    IN IF IfTaken(SqlNotEqual(c.auth_uid, c.p_user_id)) THEN [db |-> d, res |-> Unauthorized]
       ELSE IF i \notin DOMAIN d.menu THEN [db |-> d, res |-> ItemNotFound]
       ELSE IF AddRefused(available, c.p_quantity)
       THEN [db |-> d, res |-> OnlyAvailable(available)]
       ELSE [db |-> [d EXCEPT !.menu[i].quantity_available = @ - c.p_quantity,
                              !.cart = Upsert(@, c.p_user_id, i, cur + c.p_quantity, c.p_quantity)],
             res |-> Added([user_id |-> c.p_user_id, menu_item_id |-> i],
                           cur + c.p_quantity, available - c.p_quantity)]

\* The same function without the UPDATE of menu_items: the line is deleted and
\* nothing is restored.
RemoveAtomicNoRestore(d, c) ==
    LET rows == CartRowsById(d.cart, c.p_cart_item_id, c.p_user_id)
        quantity == (CHOOSE r \in rows : TRUE).quantity
    IN IF IfTaken(SqlNotEqual(c.auth_uid, c.p_user_id)) THEN [db |-> d, res |-> Unauthorized]
       ELSE IF rows = {} THEN [db |-> d, res |-> CartItemNotFound]
       ELSE [db |-> [d EXCEPT !.cart = @ \ rows], res |-> Removed(quantity)]

\* remove_from_cart_with_quantity_restore (lines 468-504)
RemoveAtomic(d, c) ==
    LET rows == CartRowsById(d.cart, c.p_cart_item_id, c.p_user_id)
        quantity == (CHOOSE r \in rows : TRUE).quantity
        i == c.p_cart_item_id.menu_item_id
    IN IF IfTaken(SqlNotEqual(c.auth_uid, c.p_user_id)) THEN [db |-> d, res |-> Unauthorized]
       ELSE IF rows = {} THEN [db |-> d, res |-> CartItemNotFound]
       ELSE [db |-> [d EXCEPT !.menu[i].quantity_available = Restored(@, quantity),
                              !.cart = @ \ rows],
             res |-> Removed(quantity)]

\* The same function with the stock reduced by the new quantity, not by the
\* difference to the line's quantity.
UpdateAtomicDeductsNew(d, c) ==
    LET rows == CartRowsById(d.cart, c.p_cart_item_id, c.p_user_id)
        cur == (CHOOSE r \in rows : TRUE).quantity
        i == c.p_cart_item_id.menu_item_id
        available == d.menu[i].quantity_available
        diff == c.p_quantity - cur
    IN IF IfTaken(SqlNotEqual(c.auth_uid, c.p_user_id)) THEN [db |-> d, res |-> Unauthorized]
       ELSE IF HandedToRemove(c.p_quantity) THEN RemoveAtomic(d, c)
       ELSE IF rows = {} THEN [db |-> d, res |-> CartItemNotFound]
       ELSE IF UpdateRefused(available, diff) THEN [db |-> d, res |-> OnlyAdditional(available)]
       ELSE [db |-> [d EXCEPT !.menu[i].quantity_available = @ - c.p_quantity,
                              !.cart = (@ \ rows) \cup
                                       {[r EXCEPT !.quantity = c.p_quantity] : r \in rows}],
             res |-> Updated(cur, c.p_quantity, available - c.p_quantity)]

\* update_cart_quantity_with_stock_check (lines 532-595)
UpdateAtomic(d, c) ==
    LET rows == CartRowsById(d.cart, c.p_cart_item_id, c.p_user_id)
        cur == (CHOOSE r \in rows : TRUE).quantity
        i == c.p_cart_item_id.menu_item_id
        available == d.menu[i].quantity_available
        diff == c.p_quantity - cur
    IN IF IfTaken(SqlNotEqual(c.auth_uid, c.p_user_id)) THEN [db |-> d, res |-> Unauthorized]
       ELSE IF HandedToRemove(c.p_quantity) THEN RemoveAtomic(d, c)
       ELSE IF rows = {} THEN [db |-> d, res |-> CartItemNotFound]
       ELSE IF UpdateRefused(available, diff) THEN [db |-> d, res |-> OnlyAdditional(available)]
       ELSE [db |-> [d EXCEPT !.menu[i].quantity_available = @ - diff,
                              !.cart = (@ \ rows) \cup
                                       {[r EXCEPT !.quantity = c.p_quantity] : r \in rows}],
             res |-> Updated(cur, c.p_quantity, available - diff)]

\* place_order_with_cart_clear (lines 620-666)
CheckoutAtomic(d, c) ==
    LET rows == CartOfUser(d.cart, c.p_user_id)
        total == SumAmount(rows, d.menu)
        order_id == Cardinality(d.orders) + 1
    IN IF IfTaken(SqlNotEqual(c.auth_uid, c.p_user_id)) THEN [db |-> d, res |-> Unauthorized]
       ELSE IF rows = {} THEN [db |-> d, res |-> EmptyCart]
       ELSE [db |-> [d EXCEPT !.orders = @ \cup {[id |-> order_id, user_id |-> c.p_user_id,
                                                  total_amount |-> total, status |-> "pending",
                                                  payment_status |-> "pending"]},
                              !.lines = @ \cup {[order_id |-> order_id,
                                                 menu_item_id |-> r.menu_item_id,
                                                 quantity |-> r.quantity,
                                                 price |-> d.menu[r.menu_item_id].price] :
                                                    r \in rows},
                              !.cart = @ \ rows],
             res |-> Ordered(order_id, total)]

Atomic(d, c) ==
    CASE c.op = "add" -> AddAtomic(d, c)
      [] c.op = "remove" -> RemoveAtomic(d, c)
      [] c.op = "update" -> UpdateAtomic(d, c)
      [] c.op = "checkout" -> CheckoutAtomic(d, c)

\* The database now, and the database the behaviour started from.
Database == [menu |-> menu_items, cart |-> cart_items, orders |-> orders, lines |-> order_items]
StockedDatabase ==
    [menu |-> [i \in Items |-> [menu_items[i] EXCEPT !.quantity_available = stocked[i]]],
     cart |-> {}, orders |-> {}, lines |-> {}]

\* ------------------------------------------------------------ properties

\* The calls made so far, and the state in which none of them is still running.
Started == {t \in Tx : tx[t].pc # "idle"}
Quiescent == \A t \in Started : tx[t].pc = "done"

\* Units of item i held in cart lines.
InCarts(i) == SumQty({r \in cart_items : r.menu_item_id = i})

\* Units of item i in the lines of orders that are not cancelled.
Sold(i) ==
    SumQty({l \in order_items : /\ l.menu_item_id = i
                                /\ \E o \in orders : o.id = l.order_id /\ o.status # "cancelled"})

\* C1. Conservation: for every menu item, in every state reached when the calls
\* made so far have returned, quantity_available plus the quantities of its cart
\* lines plus the quantities of its order lines in non-cancelled orders equals the
\* quantity the item was stocked with.
C1_Conservation ==
    Quiescent =>
        \A i \in Items : menu_items[i].quantity_available + InCarts(i) + Sold(i) = stocked[i]

\* C2. quantity_available of every menu item is >= 0 in every reachable state.
C2_StockNonNegative == \A i \in Items : menu_items[i].quantity_available >= 0

\* The step in which call t returns.
Returns(t) == tx[t].pc # "done" /\ tx'[t].pc = "done"

Failed(r, error) == ~r.success /\ r.error = error

Min(a, b) == IF a < b THEN a ELSE b

\* The calls made are N >= 2 addItem calls for item i with the same quantity q > 0,
\* and N * q exceeds the stock the item had.
AddsCompeting(i, q) ==
    /\ Cardinality(Started) >= 2
    /\ \A t \in Started : tx[t].op = "add" /\ tx[t].p_menu_item_id = i /\ tx[t].p_quantity = q
    /\ q > 0
    /\ Cardinality(Started) * q > stocked[i]

Succeeded == {t \in Started : tx[t].pc = "done" /\ tx[t].res.success}

\* C3 as stated. No oversell: when the N calls have returned, the successful ones
\* have reserved exactly the available stock in total, every other call failed
\* with InsufficientStock, and quantity_available is not negative.
C3_ExactlyAvailableReserved ==
    \A i \in Items, q \in Quantities :
        (Quiescent /\ AddsCompeting(i, q)) =>
            /\ Cardinality(Succeeded) * q = stocked[i]
            /\ \A t \in Started \ Succeeded : Failed(tx[t].res, "Only items available")
            /\ menu_items[i].quantity_available >= 0

\* C3 as amended. No oversell: when the N calls have returned, exactly
\* min(N, stock div q) of them have succeeded, so that the largest multiple of q
\* that the available stock holds is reserved; every other call failed with
\* InsufficientStock, and quantity_available is the rest of the stock, not negative.
C3_NoOversell ==
    \A i \in Items, q \in Quantities :
        (Quiescent /\ AddsCompeting(i, q)) =>
            /\ Cardinality(Succeeded) = Min(Cardinality(Started), stocked[i] \div q)
            /\ InCarts(i) = Cardinality(Succeeded) * q
            /\ \A t \in Started \ Succeeded : Failed(tx[t].res, "Only items available")
            /\ menu_items[i].quantity_available = stocked[i] - Cardinality(Succeeded) * q
            /\ menu_items[i].quantity_available >= 0

\* Competing addItem calls have returned, some with success and some refused.
C3_Witness ==
    \E i \in Items, q \in Quantities :
        /\ Quiescent /\ AddsCompeting(i, q)
        /\ Succeeded # {}
        /\ Started \ Succeeded # {}

\* The calls that returned without a database error, in every order.
Committed == {t \in Started : tx[t].pc = "done" /\ ~Failed(tx[t].res, "Database error")}
Orderings(S) ==
    {p \in [1..Cardinality(S) -> S] : \A a, b \in 1..Cardinality(S) : a # b => p[a] # p[b]}

\* The database after the calls p[k], ..., p[n] have run one after another from d,
\* provided each returns the result the call returned in this behaviour.
RECURSIVE ReplayFrom(_, _, _)
ReplayFrom(d, p, k) ==
    IF k > Len(p) THEN {d}
    ELSE LET a == Atomic(d, tx[p[k]])
         IN IF a.res = tx[p[k]].res THEN ReplayFrom(a.db, p, k + 1) ELSE {}

\* An order with its lines, without the order's id.
OrderViews(d) ==
    {[user_id |-> o.user_id, total_amount |-> o.total_amount,
      lines |-> {[menu_item_id |-> l.menu_item_id, quantity |-> l.quantity, price |-> l.price] :
                    l \in {x \in d.lines : x.order_id = o.id}}] : o \in d.orders}

SameState(d, e) == d.menu = e.menu /\ d.cart = e.cart /\ OrderViews(d) = OrderViews(e)

\* C4. Serializability: when the calls have returned, the stock, the carts and the
\* orders, and the result of each call, are those of the same calls run one after
\* another in some order.
C4_Serializable ==
    Quiescent =>
        \E p \in Orderings(Committed) :
            \E d \in ReplayFrom(StockedDatabase, p, 1) : SameState(d, Database)

\* C5. Atomicity on failure: a call that returns a failure leaves
\* quantity_available of every item and every cart line as they were. Every step
\* is the return of a successful call or changes neither table.
C5_FailureChangesNothing ==
    [][(\E t \in Tx : Returns(t) /\ tx'[t].res.success)
       \/ (menu_items' = menu_items /\ cart_items' = cart_items)]_vars

\* A call was rolled back on a database error (it closed a cycle of lock waits)
\* and another call has returned success.
C5_Witness ==
    /\ \E t \in Tx : tx[t].pc = "done" /\ Failed(tx[t].res, "Database error")
    /\ \E t \in Tx : tx[t].pc = "done" /\ tx[t].res.success

\* C6. Idempotent failure: the step in which addItem returns InsufficientStock
\* leaves the item's quantity_available and the caller's cart line unchanged.
C6_RefusedAddChangesNothing ==
    [][\A t \in Tx :
          (Returns(t) /\ tx[t].op = "add" /\ Failed(tx'[t].res, "Only items available")) =>
              /\ menu_items'[tx[t].p_menu_item_id] = menu_items[tx[t].p_menu_item_id]
              /\ CartRowsOf(cart_items', tx[t].p_user_id, tx[t].p_menu_item_id)
                   = CartRowsOf(cart_items, tx[t].p_user_id, tx[t].p_menu_item_id)]_vars

\* An addItem of a user who has a cart line for the item was refused.
C6_Witness ==
    \E t \in Tx :
        /\ tx[t].pc = "done" /\ tx[t].op = "add"
        /\ Failed(tx[t].res, "Only items available")
        /\ CartRowsOf(cart_items, tx[t].p_user_id, tx[t].p_menu_item_id) # {}

\* C7. Checkout atomicity: the step in which checkout returns either creates
\* exactly one Order whose lines' quantity x price sum to its total_amount and
\* leaves the user with no cart lines, or returns EmptyCart for a user with no
\* cart lines and changes no order, cart line or stock.
C7_CheckoutAtomic ==
    [][\A t \in Tx :
          (Returns(t) /\ tx[t].op = "checkout") =>
              \/ /\ tx'[t].res.success
                 /\ \E o \in orders' \ orders :
                       /\ orders' = orders \cup {o}
                       /\ SumLines({l \in order_items' : l.order_id = o.id}) = o.total_amount
                 /\ CartOfUser(cart_items', tx[t].p_user_id) = {}
              \/ /\ tx'[t].res = EmptyCart
                 /\ CartOfUser(cart_items, tx[t].p_user_id) = {}
                 /\ UNCHANGED db]_vars

\* The call that is setQuantity(line, user, n) with removeItem in place of it.
AsRemove(c) == [c EXCEPT !.op = "remove", !.p_quantity = 0]

\* C8. setQuantity to zero equals removeItem: the step in which
\* setQuantity(line, user, n) with n <= 0 returns leaves the stock and the cart
\* lines that removeItem(line, user), run from the same state, leaves, and returns
\* its result: the line is deleted and its quantity added to quantity_available.
C8_ZeroEqualsRemove ==
    [][\A t \in Tx :
          (/\ Returns(t) /\ tx[t].op = "update" /\ tx[t].p_quantity <= 0
           /\ ~Failed(tx'[t].res, "Database error")) =>
              LET a == RemoveAtomic(Database, AsRemove(tx[t]))
              IN /\ tx'[t].res = a.res
                 /\ menu_items' = a.db.menu
                 /\ cart_items' = a.db.cart
                 /\ orders' = orders /\ order_items' = order_items]_vars

\* A setQuantity with n <= 0 on a line of the user has returned success.
C8_Witness ==
    \E t \in Tx :
        /\ tx[t].pc = "done" /\ tx[t].op = "update" /\ tx[t].p_quantity <= 0
        /\ tx[t].res.success
        /\ CartRowsById(cart_items, tx[t].p_cart_item_id, tx[t].p_user_id) = {}

\* C9. Ownership isolation: setQuantity or removeItem on a line of another user
\* than p_user_id returns 'Cart item not found' and changes no cart line and no
\* quantity_available.
C9_OwnershipIsolation ==
    [][\A t \in Tx :
          (/\ Returns(t) /\ tx[t].op \in {"remove", "update"}
           /\ tx[t].p_cart_item_id.user_id # tx[t].p_user_id) =>
              /\ tx'[t].res = CartItemNotFound
              /\ menu_items' = menu_items
              /\ cart_items' = cart_items]_vars

\* Calls on an existing line of another user have returned, one of each function.
C9_Witness ==
    /\ \E t \in Tx :
        /\ tx[t].pc = "done" /\ tx[t].op = "remove"
        /\ tx[t].p_cart_item_id.user_id # tx[t].p_user_id
        /\ \E r \in cart_items : CartId(r) = tx[t].p_cart_item_id
    /\ \E t \in Tx :
        /\ tx[t].pc = "done" /\ tx[t].op = "update"
        /\ tx[t].p_cart_item_id.user_id # tx[t].p_user_id
        /\ \E r \in cart_items : CartId(r) = tx[t].p_cart_item_id

\* C10. Caller identity check: a call whose p_user_id is not the caller's identity
\* (an absent identity is not equal to any) has returned 'Unauthorized access'
\* at once, so none of its statements ran.
C10_CallerChecked ==
    \A t \in Started :
        tx[t].auth_uid # tx[t].p_user_id => (tx[t].pc = "done" /\ tx[t].res = Unauthorized)

\* The cart line of user u for item i.
LinesOf(cart, u, i) == {r \in cart : r.user_id = u /\ r.menu_item_id = i}

\* C11. addItem effect: the step in which addItem(user, item, qty) returns success
\* decreases the item's quantity_available by exactly qty and creates the (user,
\* item) cart line with quantity qty if none existed or increases the existing
\* line's quantity by exactly qty; nothing else changes.
C11_AddEffect ==
    [][\A t \in Tx :
          (Returns(t) /\ tx[t].op = "add" /\ tx'[t].res.success) =>
              LET u == tx[t].p_user_id
                  i == tx[t].p_menu_item_id
                  q == tx[t].p_quantity
                  had == LinesOf(cart_items, u, i)
              IN /\ menu_items' = [menu_items EXCEPT ![i].quantity_available = @ - q]
                 /\ cart_items' =
                       IF had = {}
                       THEN cart_items \cup {[user_id |-> u, menu_item_id |-> i, quantity |-> q]}
                       ELSE (cart_items \ had) \cup
                            {[r EXCEPT !.quantity = r.quantity + q] : r \in had}
                 /\ orders' = orders /\ order_items' = order_items]_vars

\* C12. addItem result: in the step in which addItem returns success, the returned
\* new_quantity is the quantity of the (user, item) cart line and the returned
\* remaining_stock is the item's quantity_available, both as committed by the step.
C12_AddResult ==
    [][\A t \in Tx :
          (Returns(t) /\ tx[t].op = "add" /\ tx'[t].res.success) =>
              /\ \E r \in LinesOf(cart_items', tx[t].p_user_id, tx[t].p_menu_item_id) :
                     r.quantity = tx'[t].res.new_quantity
              /\ menu_items'[tx[t].p_menu_item_id].quantity_available
                   = tx'[t].res.remaining_stock]_vars

\* An addItem has returned success on a line that existed, and a call that
\* started after it has changed the stock or the cart as well.
C12_Witness ==
    \E t \in Tx :
        /\ tx[t].pc = "done" /\ tx[t].op = "add" /\ tx[t].res.success
        /\ tx[t].res.new_quantity # tx[t].p_quantity
        /\ \E o \in Tx \ {t} : o > t /\ tx[o].pc = "done" /\ tx[o].res.success
                                /\ tx[o].op \in {"add", "remove", "update"}

LineById(cart, id) == {r \in cart : CartId(r) = id}

\* C14. InsufficientStock accuracy: a call that is not ended by a database error
\* returns InsufficientStock exactly when the reservation it asks for (qty for
\* addItem, the increase diff > 0 for setQuantity) exceeds the item's
\* quantity_available as stored when it returns, and the quantity it reports is
\* that quantity_available.
C14_ShortfallAccurate ==
    [][\A t \in Tx :
          (Returns(t) /\ ~Failed(tx'[t].res, "Database error")) =>
              /\ (tx[t].op = "add" /\ tx[t].p_menu_item_id \in DOMAIN menu_items) =>
                    LET available == menu_items[tx[t].p_menu_item_id].quantity_available
                    IN /\ Failed(tx'[t].res, "Only items available")
                            <=> tx[t].p_quantity > available
                       /\ Failed(tx'[t].res, "Only items available")
                            => tx'[t].res.available = available
              /\ (/\ tx[t].op = "update" /\ tx[t].p_quantity > 0
                  /\ tx'[t].res # CartItemNotFound) =>
                    LET available ==
                            menu_items[tx[t].p_cart_item_id.menu_item_id].quantity_available
                        line == CHOOSE r \in LineById(cart_items, tx[t].p_cart_item_id) : TRUE
                        diff == tx[t].p_quantity - line.quantity
                    IN /\ Failed(tx'[t].res, "Only additional items available")
                            <=> (diff > 0 /\ diff > available)
                       /\ Failed(tx'[t].res, "Only additional items available")
                            => tx'[t].res.available = available]_vars

\* An addItem and a setQuantity have been refused for a shortfall of stock that
\* other calls had changed, and reported what was left.
C14_Witness ==
    /\ \E t \in Tx : /\ tx[t].pc = "done" /\ tx[t].op = "add"
                      /\ Failed(tx[t].res, "Only items available")
                      /\ tx[t].res.available # stocked[tx[t].p_menu_item_id]
    /\ \E t \in Tx : /\ tx[t].pc = "done" /\ tx[t].op = "update"
                      /\ Failed(tx[t].res, "Only additional items available")
                      /\ tx[t].res.available # stocked[tx[t].p_cart_item_id.menu_item_id]

\* C15. setQuantity effect: a setQuantity(line, user, n) with n > 0 on a line the
\* user owns, of quantity c, that is not ended by a database error: with diff =
\* n - c, if diff > 0 and quantity_available < diff it returns InsufficientStock
\* and changes nothing; otherwise the line's quantity becomes n and
\* quantity_available its value minus diff, and nothing else changes.
C15_SetQuantityEffect ==
    [][\A t \in Tx :
          (/\ Returns(t) /\ tx[t].op = "update" /\ tx[t].p_quantity > 0
           /\ tx[t].p_cart_item_id.user_id = tx[t].p_user_id
           /\ LineById(cart_items, tx[t].p_cart_item_id) # {}
           /\ ~Failed(tx'[t].res, "Database error")) =>
              LET i == tx[t].p_cart_item_id.menu_item_id
                  n == tx[t].p_quantity
                  had == LineById(cart_items, tx[t].p_cart_item_id)
                  c == (CHOOSE r \in had : TRUE).quantity
                  diff == n - c
              IN IF diff > 0 /\ menu_items[i].quantity_available < diff
                 THEN /\ Failed(tx'[t].res, "Only additional items available")
                      /\ UNCHANGED db
                 ELSE /\ tx'[t].res.success
                      /\ cart_items' = (cart_items \ had) \cup
                                        {[r EXCEPT !.quantity = n] : r \in had}
                      /\ menu_items' = [menu_items EXCEPT ![i].quantity_available = @ - diff]
                      /\ orders' = orders /\ order_items' = order_items]_vars

\* A setQuantity has raised a line and one has lowered a line.
C15_Witness ==
    /\ \E t \in Tx : /\ tx[t].pc = "done" /\ tx[t].op = "update" /\ tx[t].res.success
                      /\ tx[t].p_quantity > 0
                      /\ tx[t].res.new_quantity > tx[t].res.old_quantity
    /\ \E t \in Tx : /\ tx[t].pc = "done" /\ tx[t].op = "update" /\ tx[t].res.success
                      /\ tx[t].p_quantity > 0
                      /\ tx[t].res.new_quantity < tx[t].res.old_quantity

\* C16. setQuantity result: every successful setQuantity response carries an
\* action field, 'updated' when the line is kept and 'removed' when it is deleted
\* because new_quantity <= 0, together with old_quantity, new_quantity and
\* remaining_stock.
C16_SetQuantityResult ==
    \A t \in Tx :
        (tx[t].pc = "done" /\ tx[t].op = "update" /\ tx[t].res.success) =>
            /\ {"action", "old_quantity", "new_quantity", "remaining_stock"}
                  \subseteq DOMAIN tx[t].res
            /\ tx[t].res.action = IF tx[t].p_quantity <= 0 THEN "removed" ELSE "updated"

\* C17. removeItem effect: a removeItem(line, user) that is not ended by a database
\* error, on a line of quantity q that the user owns, deletes the line, adds
\* exactly q to the item's quantity_available, returns restored_quantity = q and
\* changes nothing else; when the user has no line with that id it returns 'Cart
\* item not found' and changes nothing.
C17_RemoveEffect ==
    [][\A t \in Tx :
          (Returns(t) /\ tx[t].op = "remove" /\ ~Failed(tx'[t].res, "Database error")) =>
              LET i == tx[t].p_cart_item_id.menu_item_id
                  had == {r \in LineById(cart_items, tx[t].p_cart_item_id) :
                             r.user_id = tx[t].p_user_id}
                  q == (CHOOSE r \in had : TRUE).quantity
              IN IF had = {}
                 THEN tx'[t].res = CartItemNotFound /\ UNCHANGED db
                 ELSE /\ tx'[t].res.success
                      /\ tx'[t].res.restored_quantity = q
                      /\ cart_items' = cart_items \ had
                      /\ menu_items' = [menu_items EXCEPT ![i].quantity_available = @ + q]
                      /\ orders' = orders /\ order_items' = order_items]_vars

\* A removeItem has given back a line of more than one unit, and a removeItem has
\* found no line.
C17_Witness ==
    /\ \E t \in Tx : /\ tx[t].pc = "done" /\ tx[t].op = "remove" /\ tx[t].res.success
                      /\ tx[t].res.restored_quantity > 1
    /\ \E t \in Tx : /\ tx[t].pc = "done" /\ tx[t].op = "remove"
                      /\ tx[t].res = CartItemNotFound

\* C18. checkout effect: the step in which checkout(user) returns success creates
\* one Order with status 'pending' and payment_status 'pending' and exactly one
\* OrderLine for each cart line the user has, with that line's menu item and
\* quantity and the price used for it in total_amount; after it the user has no
\* cart lines.
C18_CheckoutEffect ==
    [][\A t \in Tx :
          (Returns(t) /\ tx[t].op = "checkout" /\ tx'[t].res.success) =>
              LET had == CartOfUser(cart_items, tx[t].p_user_id)
              IN /\ \E o \in orders' \ orders :
                       /\ orders' = orders \cup {o}
                       /\ o.user_id = tx[t].p_user_id
                       /\ o.status = "pending" /\ o.payment_status = "pending"
                       /\ \E price \in [had -> Prices] :
                             /\ order_items' = order_items \cup
                                   {[order_id |-> o.id, menu_item_id |-> r.menu_item_id,
                                     quantity |-> r.quantity, price |-> price[r]] : r \in had}
                             /\ o.total_amount = SumLines({l \in order_items' : l.order_id = o.id})
                 /\ CartOfUser(cart_items', tx[t].p_user_id) = {}]_vars

\* C19. checkout leaves quantity_available of every menu item unchanged: no
\* step of a checkout call, whether it ends in success or in failure, changes it.
C19_CheckoutKeepsStock ==
    [][\A t \in Tx :
          (tx'[t] # tx[t] /\ tx'[t].op = "checkout") =>
              \A i \in Items :
                  menu_items'[i].quantity_available = menu_items[i].quantity_available]_vars

\* A checkout has placed an order for units taken from stock, and a checkout has
\* failed on an empty cart.
C19_Witness ==
    /\ \E t \in Tx : /\ tx[t].pc = "done" /\ tx[t].op = "checkout" /\ tx[t].res.success
                      /\ order_items # {}
                      /\ \E i \in Items : menu_items[i].quantity_available < stocked[i]
    /\ \E t \in Tx : tx[t].pc = "done" /\ tx[t].op = "checkout" /\ tx[t].res = EmptyCart

\* C20. Price copy: no step (a change of a menu item's price, a step of addItem,
\* setQuantity, removeItem or checkout) changes or deletes an existing OrderLine
\* (its quantity and price) or an existing Order (its total_amount).
C20_OrdersKept ==
    [][orders \subseteq orders' /\ order_items \subseteq order_items']_vars

\* An order line holds a price that is no longer the menu item's price, and a
\* call that started after the checkout has changed the stock or the cart.
C20_Witness ==
    /\ \E l \in order_items : l.price # menu_items[l.menu_item_id].price
    /\ \E t \in Tx : /\ tx[t].pc = "done" /\ tx[t].op = "checkout" /\ tx[t].res.success
                      /\ \E o \in Tx : o > t /\ tx[o].pc = "done" /\ tx[o].res.success

\* C21. Cart-line uniqueness: in every reachable state there is at most one cart
\* line for each pair of a user and a menu item.
C21_OneLinePerUserItem ==
    \A u \in Users, i \in Items : Cardinality(LinesOf(cart_items, u, i)) <= 1

\* Two addItem calls of the same user for the same item, started one while the
\* other was running, have both returned success.
C21_Witness ==
    \E t, o \in Tx :
        /\ t # o
        /\ tx[t].pc = "done" /\ tx[t].op = "add" /\ tx[t].res.success
        /\ tx[o].pc = "done" /\ tx[o].op = "add" /\ tx[o].res.success
        /\ tx[t].p_user_id = tx[o].p_user_id
        /\ tx[t].p_menu_item_id = tx[o].p_menu_item_id
        /\ LinesOf(cart_items, tx[t].p_user_id, tx[t].p_menu_item_id) # {}

\* C22. Positive cart quantities: in every reachable state every cart line has
\* quantity > 0, whatever integer quantities addItem and setQuantity are called with.
C22_PositiveQuantities == \A r \in cart_items : r.quantity > 0

\* The fields each function's success object carries besides success.
Payload(op) ==
    CASE op = "add" -> {"cart_item_id", "new_quantity", "remaining_stock"}
      [] op = "remove" -> {"restored_quantity"}
      [] op = "update" -> {"old_quantity", "new_quantity", "remaining_stock"}
      [] op = "checkout" -> {"order_id", "total_amount"}

\* C23. Structured responses: every call that has ended has returned an object
\* with a success flag and, on success, its payload, else an error reason; none
\* has ended with an exception, a call whose statement failed included.
C23_StructuredResponses ==
    \A t \in Tx :
        tx[t].pc = "done" =>
            /\ "success" \in DOMAIN tx[t].res
            /\ IF tx[t].res.success
               THEN \/ Payload(tx[t].op) \subseteq DOMAIN tx[t].res
                    \/ tx[t].op = "update" /\ Payload("remove") \subseteq DOMAIN tx[t].res
               ELSE "error" \in DOMAIN tx[t].res

\* A call has ended on a failed statement (it closed a cycle of lock waits),
\* one on a business rule, and one with success.
C23_Witness ==
    /\ \E t \in Tx : tx[t].pc = "done" /\ tx[t].res = DatabaseError
    /\ \E t \in Tx : tx[t].pc = "done" /\ ~tx[t].res.success /\ tx[t].res # DatabaseError
    /\ \E t \in Tx : tx[t].pc = "done" /\ tx[t].res.success

\* addItem has read quantity_available for its stock check and has not returned.
AddHoldsStockRead(t) == tx[t].op = "add" /\ tx[t].pc \in {"a_cart", "a_upsert"}

\* C24. Lock discipline: from the read of quantity_available that decides the
\* stock check of addItem until the call returns, the call holds the item's row
\* lock and the value it read is the committed one; setQuantity reads the stock,
\* decides and commits only when no other call holds the item's row lock.
C24_LockDiscipline ==
    /\ [](\A t \in Tx :
            AddHoldsStockRead(t) =>
                /\ item_lock[tx[t].p_menu_item_id] = t
                /\ tx[t].v_available_quantity =
                       menu_items[tx[t].p_menu_item_id].quantity_available)
    /\ [][\A t \in Tx :
            (Returns(t) /\ tx[t].pc = "u_write" /\ tx'[t].res # DatabaseError) =>
                item_lock[tx[t].p_cart_item_id.menu_item_id] = 0]_vars

\* An addItem that has passed its stock check holds the item's lock while
\* another call waits for that lock to read the stock.
C24_Witness ==
    \E t, o \in Tx :
        /\ AddHoldsStockRead(t) /\ tx[t].pc = "a_upsert"
        /\ tx[o].pc \in {"a_lock", "u_write"}
        /\ WaitsFor(o) = t

\* The menu item an addItem, setQuantity or removeItem call touches.
ItemOf(c) == IF c.op = "add" THEN c.p_menu_item_id ELSE c.p_cart_item_id.menu_item_id

\* C26. No partial application observable: every step of an addItem, setQuantity
\* or removeItem call changes the committed stock of its item and the committed
\* cart lines of its user for that item together or not at all, so no database
\* state holds one of the two changes without the other.
C26_NoPartialApplication ==
    [][\A t \in Tx :
          (tx'[t] # tx[t] /\ tx'[t].op \in {"add", "remove", "update"}
             /\ ItemOf(tx'[t]) \in DOMAIN menu_items) =>
              LET i == ItemOf(tx'[t])
                  u == tx'[t].p_user_id
              IN (menu_items'[i].quantity_available # menu_items[i].quantity_available)
                 <=> (LinesOf(cart_items', u, i) # LinesOf(cart_items, u, i))]_vars

\* An addItem, a setQuantity and a removeItem have each committed a stock change
\* while another call was still running.
C26_Witness ==
    /\ \E t \in Tx : tx[t].pc \notin {"idle", "done"}
    /\ \E t \in Tx : tx[t].pc = "done" /\ tx[t].op = "add" /\ tx[t].res.success
    /\ \E t \in Tx : /\ tx[t].pc = "done" /\ tx[t].res.success
                      /\ \/ tx[t].op = "remove" /\ tx[t].res.restored_quantity > 0
                         \/ /\ tx[t].op = "update"
                            /\ "old_quantity" \in DOMAIN tx[t].res
                            /\ tx[t].res.old_quantity # tx[t].res.new_quantity

\* The error texts of the business rules.
BusinessErrors ==
    {Unauthorized.error, ItemNotFound.error, CartItemNotFound.error, EmptyCart.error}
    \cup {OnlyAvailable(n).error : n \in (0 - MaxStock - MaxTx * MaxQty)..(MaxStock + MaxTx * MaxQty)}
    \cup {OnlyAdditional(n).error : n \in (0 - MaxStock - MaxTx * MaxQty)..(MaxStock + MaxTx * MaxQty)}

\* C28. Error kinds distinguishable: a call that ends while it waits for a row
\* lock (ended by the database on lock contention) fails with an error that is
\* none of the business-rule errors, and a call that ends otherwise never
\* reports that error.
C28_ErrorKindsDistinct ==
    [][\A t \in Tx :
          Returns(t) =>
              IF WaitsFor(t) # 0
              THEN ~tx'[t].res.success /\ tx'[t].res.error \notin BusinessErrors
              ELSE tx'[t].res.success \/ tx'[t].res.error \in BusinessErrors]_vars

\* One call was ended on lock contention and another was refused by a business
\* rule.
C28_Witness ==
    /\ \E t \in Tx : tx[t].pc = "done" /\ tx[t].res = DatabaseError
    /\ \E t \in Tx : /\ tx[t].pc = "done" /\ ~tx[t].res.success
                      /\ tx[t].res.error \in BusinessErrors

\* C29. Checkout reads one consistent cart: a successful checkout deletes exactly
\* the cart lines it copied into order lines, and its total_amount is the sum
\* over those same lines, whatever the same user's other calls do meanwhile.
C29_OneConsistentCart ==
    [][\A t \in Tx :
          (Returns(t) /\ tx'[t].op = "checkout" /\ tx'[t].res.success) =>
              LET deleted == CartOfUser(cart_items, tx'[t].p_user_id)
                  copied == order_items' \ order_items
              IN /\ {[menu_item_id |-> l.menu_item_id, quantity |-> l.quantity] : l \in copied}
                      = {[menu_item_id |-> r.menu_item_id, quantity |-> r.quantity] : r \in deleted}
                 /\ tx'[t].res.total_amount = SumLines(copied)]_vars

\* C30. No deadlock: no reachable state has two calls each waiting for a row
\* lock the other holds.
C30_NoDeadlock == \A t \in Tx : ~Deadlocked(t)

\* The call is running and its next statement cannot be executed.
Blocked(t) == tx[t].pc \notin {"idle", "done"} /\ ~ENABLED StepOf(t)

\* The call holds a row lock.
HoldsLock(t) ==
    \/ \E i \in DOMAIN item_lock : item_lock[i] = t
    \/ \E k \in DOMAIN cart_lock : cart_lock[k] = t

\* C25. Cross-item independence: an addItem, setQuantity or removeItem call is
\* blocked only by a call that touches the same menu item; a call that touches
\* only another item never blocks it, the same user's calls included.
C25_CrossItemIndependence ==
    \A t \in Tx :
        Blocked(t) =>
            /\ WaitsFor(t) # 0
            /\ ItemOf(tx[WaitsFor(t)]) = ItemOf(tx[t])

\* A call on one item can execute its next statement although a call of the
\* same user on the other item holds that item's lock, and a third call is
\* blocked by one of them on its own item.
C25_Witness ==
    \E t, o, b \in Tx :
        /\ tx[t].pc \in {"a_lock", "r_write", "u_write"}
        /\ ~Blocked(t)
        /\ tx[o].p_user_id = tx[t].p_user_id
        /\ tx[o].pc # "done" /\ ItemOf(tx[o]) # ItemOf(tx[t])
        /\ item_lock[ItemOf(tx[o])] = o
        /\ Blocked(b)

\* C27. Bounded blocking: every call that has started, one waiting for a row
\* lock included, eventually returns, with its result or with an error; no call
\* waits forever.
C27_NoWaitForever ==
    \A t \in Tx : (tx[t].pc \notin {"idle", "done"}) ~> (tx[t].pc = "done")

\* Every call has returned: one that waited in a lock cycle with 'Database
\* error', and the addItem it waited for, which waited for its lock too, with
\* success on the line of quantity 2.
C27_Witness ==
    \E t, o \in Tx :
        /\ tx[t].pc = "done" /\ tx[t].res = DatabaseError
        /\ tx[o].pc = "done" /\ tx[o].op = "add" /\ tx[o].res.success
        /\ tx[o].res.new_quantity = 2
        /\ \A a \in Tx : tx[a].pc = "done"

\* The call deletes a cart line: removeItem, or setQuantity with new_quantity <= 0.
Deletes(c) == c.op = "remove" \/ (c.op = "update" /\ c.p_quantity <= 0)

\* The calls that have deleted the line k and restored its quantity, and the
\* addItem calls that have returned success for k's user and item.
Restorers(k) ==
    {t \in Tx : /\ tx[t].pc = "done" /\ Deletes(tx[t]) /\ tx[t].res.success
                /\ tx[t].p_cart_item_id = k}
Creators(k) ==
    {t \in Tx : /\ tx[t].pc = "done" /\ tx[t].op = "add" /\ tx[t].res.success
                /\ tx[t].p_user_id = k.user_id /\ tx[t].p_menu_item_id = k.menu_item_id}

\* C31. Single restore: a cart line is deleted and its quantity restored at most
\* once for each time it was put into the cart; of two calls that delete the same
\* line put there once, one succeeds and the other fails with 'Cart item not
\* found' (or is ended by the database with 'Database error').
C31_SingleRestore ==
    \A k \in DOMAIN cart_lock :
        /\ Cardinality(Restorers(k)) <= Cardinality(Creators(k))
        /\ \A t \in Restorers(k), o \in Tx :
              (/\ o # t /\ Cardinality(Creators(k)) = 1
               /\ tx[o].pc = "done" /\ Deletes(tx[o]) /\ tx[o].p_cart_item_id = k) =>
                  tx[o].res \in {CartItemNotFound, DatabaseError}

\* A removeItem and a setQuantity to zero of the same line have both returned,
\* one with success and the other with 'Cart item not found'.
C31_Witness ==
    \E t, o \in Tx :
        /\ t # o
        /\ tx[t].pc = "done" /\ tx[o].pc = "done"
        /\ tx[t].op = "remove" /\ tx[o].op = "update" /\ tx[o].p_quantity <= 0
        /\ tx[t].p_cart_item_id = tx[o].p_cart_item_id
        /\ tx[t].p_user_id = tx[o].p_user_id
        /\ \/ tx[t].res.success /\ tx[o].res = CartItemNotFound
           \/ tx[o].res.success /\ tx[t].res = CartItemNotFound

\* C32. No empty order: in every reachable state every order has at least one
\* order line.
C32_NoEmptyOrder == \A o \in orders : \E l \in order_items : l.order_id = o.id

\* setQuantity(line k, its user, n) as a call, to be run on its own.
SetQuantity(k, n) ==
    [IdleTx EXCEPT !.op = "update", !.auth_uid = k.user_id, !.p_user_id = k.user_id,
                   !.p_cart_item_id = k, !.p_quantity = n]

\* C33. setQuantity is idempotent on state: from every reachable database, for
\* every cart line and its user and every n > 0, setQuantity(line, user, n) run
\* twice in a row leaves the stock and the cart lines that running it once
\* leaves, and with n equal to the line's quantity it changes neither.
C33_SetQuantityIdempotent ==
    \A r \in cart_items, n \in 1..(MaxQty + 1) :
        LET c == SetQuantity(CartId(r), n)
            once == UpdateAtomic(Database, c).db
            twice == UpdateAtomic(once, c).db
        IN /\ twice.menu = once.menu /\ twice.cart = once.cart
           /\ (n = r.quantity => once.menu = menu_items /\ once.cart = cart_items)

\* Two setQuantity calls of the same line with the same n > 0 have run one
\* after the other: the first changed the quantity, the second found it as set.
C33_Witness ==
    \E t, o \in Tx :
        /\ t # o
        /\ tx[t].pc = "done" /\ tx[o].pc = "done"
        /\ tx[t].op = "update" /\ tx[o].op = "update"
        /\ tx[t].p_cart_item_id = tx[o].p_cart_item_id
        /\ tx[t].p_quantity = tx[o].p_quantity /\ tx[t].p_quantity > 0
        /\ tx[t].res.success /\ tx[o].res.success
        /\ tx[t].res.old_quantity # tx[t].res.new_quantity
        /\ tx[o].res.old_quantity = tx[o].res.new_quantity
        /\ \E r \in cart_items : CartId(r) = tx[t].p_cart_item_id /\ r.quantity = tx[t].p_quantity

\* C34. Add then remove round trip: from every reachable database, for every
\* user with no cart line for an item, a successful addItem(user, item, q)
\* followed by removeItem of the line it created leaves quantity_available and
\* the cart lines as they were before the addItem.
C34_AddRemoveRoundTrip ==
    \A u \in Users, i \in DOMAIN menu_items, q \in Quantities :
        LinesOf(cart_items, u, i) = {} =>
            LET a == AddAtomic(Database, [IdleTx EXCEPT !.op = "add", !.auth_uid = u,
                                            !.p_user_id = u, !.p_menu_item_id = i,
                                            !.p_quantity = q])
                k == [user_id |-> u, menu_item_id |-> i]
                b == RemoveAtomic(a.db, [IdleTx EXCEPT !.op = "remove", !.auth_uid = u,
                                           !.p_user_id = u, !.p_cart_item_id = k])
            IN a.res.success =>
                  /\ b.res.success
                  /\ b.db.menu = menu_items
                  /\ b.db.cart = cart_items

\* An addItem for an item the user had no line for and the removeItem of the
\* line it created have run one after the other, and the stock and the cart are
\* as they started.
C34_Witness ==
    \E t, o \in Tx :
        /\ tx[t].pc = "done" /\ tx[t].op = "add" /\ tx[t].res.success
        /\ tx[t].res.new_quantity = tx[t].p_quantity /\ tx[t].p_quantity > 0
        /\ tx[o].pc = "done" /\ tx[o].op = "remove" /\ tx[o].res.success
        /\ tx[o].p_cart_item_id = tx[t].res.cart_item_id
        /\ tx[o].res.restored_quantity = tx[t].p_quantity
        /\ \A a \in Tx \ {t, o} : tx[a].pc = "idle"
        /\ cart_items = {}
        /\ \A i \in DOMAIN menu_items : menu_items[i].quantity_available = stocked[i]

\* The channels the hook has subscribed and not unsubscribed.
Subscribed == {c \in DOMAIN channels : channels[c].state = "subscribed"}

\* C36. Realtime subscription lifecycle: in every state reached by effect runs
\* and cleanups at most one channel created by the hook is subscribed, none is
\* after a cleanup that no effect run has followed, and every handler call made
\* for a delivered change event is the call of the handler of its event type.
C36_SubscriptionLifecycle ==
    /\ Cardinality(Subscribed) <= 1
    /\ (effect = "none" => Subscribed = {})
    /\ \A x \in called :
          \/ x.eventType = "UPDATE" /\ x.handler = "onUpdate"
          \/ x.eventType = "INSERT" /\ x.handler = "onInsert"
          \/ x.eventType = "DELETE" /\ x.handler = "onDelete"

\* The effect has run twice and been cleaned up twice: both channels are
\* unsubscribed, and events of all three types were delivered on the second.
C36_Witness ==
    /\ Len(channels) >= 2
    /\ effect = "none"
    /\ channels[1].state = "unsubscribed" /\ channels[2].state = "unsubscribed"
    /\ \A e \in EventTypes : \E x \in called : x.channel = 2 /\ x.eventType = e

\* No call is running, every handler of the dashboard has ended, every event
\* of every committed change was emitted and delivered, and every fetch was
\* answered and its response received.
Settled ==
    /\ mounted
    /\ \A t \in Tx : tx[t].pc \in {"idle", "done"}
    /\ \A t \in Tx : (tx[t].pc = "done" /\ tx[t].p_user_id = Me) => handlers[t] = "end"
    /\ Synced
    /\ events = {}
    /\ requests = {}

\* C35. Client convergence: once no further cart operation is issued and every
\* pending fetch response and realtime event has been delivered, the dashboard
\* shows for each menu item the quantity_available stored in the database and
\* shows the user's stored cart lines.
C35_ClientConvergence ==
    Settled =>
        /\ DOMAIN menuItems = DOMAIN menu_items
        /\ \A i \in DOMAIN menu_items :
              menuItems[i].quantity_available = menu_items[i].quantity_available
        /\ cartItems = CartOfUser(cart_items, Me)
====
